---- MODULE Spec2Model ----
(***************************************************************************)
(* A model of the armonite coordinator (test-run lifecycle, registry,      *)
(* telemetry aggregation, finalisation) and of the armonite agent          *)
(* (command handling, worker pool, metrics).                               *)
(*                                                                         *)
(* Time is a logical clock `now` counting seconds; time.Now() reads it.    *)
(* A nil pointer / absent time is Nil. Run ids are 1..MaxRuns in order of  *)
(* creation (uuid.New() never repeats an id).                              *)
(***************************************************************************)
EXTENDS Integers, Sequences, FiniteSets, TLC

\* ---------------------------------------------------------------- bounds
MaxRuns == 2          \* number of TestRun objects ever allocated
NumAgents == 2        \* agent ids 1..NumAgents
MaxTime == 2          \* the clock stops advancing here
MaxMinAgents == 2     \* min_agents values a create request may carry
MaxTasks == 1         \* pending goroutines / timers of one kind per run
MaxStartTasks == 2    \* the same, where starts of one run are counted
MaxInternal == 1      \* messages in flight on armonite.coordinator.internal
MaxQueue == 2         \* commands pending on armonite.test.command
MaxPhaseQueue == 1    \* commands pending on armonite.agent.<id>.command
MaxRequests == 3      \* HTTP requests one agent completes
Concurrency == 2      \* the agent's --concurrency

Nil == 0
DefaultMinAgents == 1
RateLimitSeconds == 1
HeartbeatInterval == 30
CleanupInterval == 30
StaleThreshold == 60

RunIds == 1..MaxRuns
Agents == 1..NumAgents

\* ramp-up inputs: seconds since Start, and the strategies tried
MaxElapsed == 12
MaxPhases == 2
MaxConcurrencies == {0, 2, 55, 90, 100}
RampDurations == {10, 11}
PhaseDurations == {0, 1, 2}
PhaseConcurrencies == {-1, 1, 3}
PhaseModes == {"parallel", "burst"}
StepCounts == {-1, 0, 2, 3, 4}

\* phase orchestration, timed in seconds
MaxPhaseClock == 12   \* the orchestration clock stops advancing here
MaxThinkTime == 2     \* longest think time of an endpoint of the plan
PhaseSeconds == {NumAgents, 2 * NumAgents}

\* rate limiter inputs: --rate-limit values, and ticks of the refill ticker
MaxRateLimit == 3
MaxTicks == 6
\* the registry: the clock stops here; heartbeats the network may drop
MaxRegistryTime == 95
MaxLostHeartbeats == 3
RateLimits == -1..MaxRateLimit

\* ------------------------------------------------------------ test plans
\* no ramp_up_strategy in the plan (a nil pointer)
NoStrategy == [type |-> "none", duration |-> 0, phases |-> <<>>]

PlanSimple == [endpoints |-> 1, ramp_up_strategy |-> NoStrategy]

PlanSequential ==
    [endpoints |-> 1,
     ramp_up_strategy |->
         [type |-> "custom", duration |-> 2,
          phases |-> <<[duration |-> 1, concurrency |-> 1, mode |-> "parallel"],
                       [duration |-> 1, concurrency |-> 1, mode |-> "sequential"]>>]]

PlanNoEndpoints == [endpoints |-> 0, ramp_up_strategy |-> NoStrategy]

\* The create requests the API receives: a plan and min_agents (0 = absent).
CreateRequests ==
    {[test_plan |-> PlanSimple, min_agents |-> MaxMinAgents],
     [test_plan |-> PlanSequential, min_agents |-> 0],
     [test_plan |-> PlanNoEndpoints, min_agents |-> 1]}

\* Telemetry snapshots an agent may publish (requests > 0, see reportMetrics).
Snapshots == {[requests |-> 1, errors |-> 0], [requests |-> 2, errors |-> 1]}

\* ------------------------------------------------------- TestRun methods
TestRunStatusCreated == "created"
TestRunStatusWaiting == "waiting_for_agents"
TestRunStatusRunning == "running"
TestRunStatusCompleting == "completing"
TestRunStatusCompleted == "completed"
TestRunStatusFailed == "failed"
TestRunStatusCancelled == "cancelled"

NewTestRun(testPlan, minAgents) ==
    [status |-> TestRunStatusCreated,
     started_at |-> Nil,
     completed_at |-> Nil,
     agent_count |-> minAgents,
     test_plan |-> testPlan,
     results |-> <<>>]

TestRunStart(tr, t) ==
    [tr EXCEPT !.started_at = t, !.status = TestRunStatusWaiting]

MarkRunning(tr) == [tr EXCEPT !.status = TestRunStatusRunning]

\* Complete without the completed_at stamp.
Complete_NoStamp(tr, results, t) ==
    [tr EXCEPT !.status = TestRunStatusCompleted, !.results = <<results>>]

Complete(tr, results, t) ==
    [tr EXCEPT !.completed_at = t,
               !.status = TestRunStatusCompleted,
               !.results = <<results>>]

Fail(tr, t) ==
    [tr EXCEPT !.completed_at = t, !.status = TestRunStatusFailed]

\* hasSequentialPhases: custom strategy with at least one sequential phase
hasSequentialPhases(strategy) ==
    /\ strategy.type = "custom"
    /\ \E i \in 1..Len(strategy.phases) : strategy.phases[i].mode = "sequential"

\* ---------------------------------------------------------- finalisation
RECURSIVE SumField(_, _)
SumField(rs, f) ==
    IF rs = <<>> THEN 0 ELSE Head(rs)[f] + SumField(Tail(rs), f)

\* requests_per_sec as an exact fraction num/den
ZeroRate == [num |-> 0, den |-> 1]

RequestsPerSec(tr, totalRequests) ==
    IF tr.started_at # Nil /\ tr.completed_at # Nil
       /\ tr.completed_at - tr.started_at > 0
    THEN [num |-> totalRequests, den |-> tr.completed_at - tr.started_at]
    ELSE ZeroRate

\* The aggregate completeTestRun builds from the slice it read.
AggregateResults(tr, results) ==
    [total_requests |-> SumField(results, "requests"),
     total_errors |-> SumField(results, "errors"),
     requests_per_sec |-> RequestsPerSec(tr, SumField(results, "requests")),
     agent_results |-> results]

\* ------------------------------------------------------- float64
\* float64 arithmetic as GetCurrentConcurrency uses it, on the integers the
\* calculator meets (concurrencies below 2^7, durations below 2^12). A
\* positive value is m / 2^scale with m written in three limbs of 18 bits,
\* most significant first. Results are rounded to the 53 bits of a
\* float64 mantissa, to nearest, ties to even.
RECURSIVE Pow2(_)
Pow2(n) == IF n = 0 THEN 1 ELSE 2 * Pow2(n - 1)

Limb == Pow2(18)

Float64Zero == [m |-> <<0, 0, 0>>, scale |-> 0]

\* m + d for a small d, carrying from limb to limb
AddLimbs(m, d) ==
    LET s3 == m[3] + d
        s2 == m[2] + s3 \div Limb
    IN <<m[1] + s2 \div Limb, s2 % Limb, s3 % Limb>>

\* m with its drop lowest bits rounded away (to nearest, ties to even);
\* inexact says that bits below m were already lost
Float64Round(m, drop, inexact) ==
    LET q == Pow2(drop)
        low == m[3] % q
        roundBit == low \div (q \div 2)
        sticky == inexact \/ low % (q \div 2) # 0
        lastKept == (m[3] \div q) % 2
        down == <<m[1], m[2], m[3] - low>>
    IN IF roundBit = 1 /\ (sticky \/ lastKept = 1) THEN AddLimbs(down, q)
       ELSE down

\* the number of leading zero bits of the binary expansion of a / b (a < b)
RECURSIVE LeadingZeros(_, _)
LeadingZeros(a, b) == IF 2 * a >= b THEN 0 ELSE 1 + LeadingZeros(2 * a, b)

\* float64(a) / float64(b) for integers 0 <= a < b: 54 bits of the expansion
\* from its first 1 bit, rounded to 53
Float64Div(a, b) ==
    IF a = 0 THEN Float64Zero
    ELSE LET z == LeadingZeros(a, b)
             r0 == a * Pow2(z)
             l1 == (r0 * Limb) \div b
             r1 == (r0 * Limb) % b
             l2 == (r1 * Limb) \div b
             r2 == (r1 * Limb) % b
             l3 == (r2 * Limb) \div b
             r3 == (r2 * Limb) % b
             m == Float64Round(<<l1, l2, l3>>, 1, r3 # 0)
         IN IF m[1] >= Limb
            THEN [m |-> <<Limb \div 2, 0, 0>>, scale |-> z + 53]
            ELSE [m |-> m, scale |-> z + 54]

\* float64(k) * f for an integer 0 <= k < 2^7: the exact product, rounded to
\* 53 bits
Float64Mul(k, f) ==
    IF k = 0 \/ f.m = <<0, 0, 0>> THEN Float64Zero
    ELSE LET p3 == f.m[3] * k
             p2 == f.m[2] * k + p3 \div Limb
             p1 == f.m[1] * k + p2 \div Limb
             e == CHOOSE x \in 0..7 :
                      Pow2(17 + x) <= p1 /\ p1 < Pow2(18 + x)
         IN [m |-> Float64Round(<<p1, p2 % Limb, p3 % Limb>>, e + 1, FALSE),
             scale |-> f.scale]

\* int(f): truncation toward zero (f < 2^7, so the integer part lies in the
\* first limb)
Float64ToInt(f) ==
    IF f.m = <<0, 0, 0>> THEN 0
    ELSE f.m[1] \div Pow2(f.scale - 36)

\* ------------------------------------------------------------ ramp-up
\* Durations are the parsed values, in whole seconds.
RampUpTypeImmediate == "immediate"
RampUpTypeLinear == "linear"
RampUpTypeStep == "step"
RampUpTypeCustom == "custom"

CreateDefaultRampUp ==
    [type |-> RampUpTypeImmediate, duration |-> 0, phases |-> <<>>]

CreateLinearRampUp(duration) ==
    [type |-> RampUpTypeLinear, duration |-> duration, phases |-> <<>>]

\* fmt.Sprintf("%.0f", a / b): the quotient rounded to nearest, ties to even
FormatWhole(a, b) ==
    LET q == a \div b
        r == a % b
    IN IF 2 * r < b THEN q
       ELSE IF 2 * r > b THEN q + 1
       ELSE IF q % 2 = 0 THEN q ELSE q + 1

CreateStepRampUp(duration, steps) ==
    LET n == IF steps <= 0 THEN 3 ELSE steps
        stepDuration == FormatWhole(duration, n)
    IN [type |-> RampUpTypeStep,
        duration |-> duration,
        phases |-> [k \in 1..n |->
                       [duration |-> stepDuration,
                        concurrency |-> (k * 100) \div n,
                        mode |-> "parallel"]]]

CreateCustomRampUp(totalDuration, phases) ==
    [type |-> RampUpTypeCustom, duration |-> totalDuration, phases |-> phases]

ValidateRampUpStrategy(strategy) ==
    CASE strategy.type \in {RampUpTypeImmediate, RampUpTypeLinear} -> TRUE
      [] strategy.type \in {RampUpTypeStep, RampUpTypeCustom} ->
            /\ Len(strategy.phases) # 0
            /\ \A i \in 1..Len(strategy.phases) :
                  /\ strategy.phases[i].concurrency >= 0
                  /\ strategy.phases[i].mode \in {"parallel", "sequential"}
      [] OTHER -> FALSE

NewRampUpCalculator(strategy, maxConcurrency) ==
    [strategy |-> strategy,
     maxConcurrency |-> maxConcurrency,
     duration |-> strategy.duration]

getInitialConcurrency(calc) ==
    CASE calc.strategy.type = RampUpTypeImmediate -> calc.maxConcurrency
      [] calc.strategy.type = RampUpTypeLinear -> 1
      [] calc.strategy.type \in {RampUpTypeStep, RampUpTypeCustom} ->
            IF Len(calc.strategy.phases) > 0
            THEN calc.strategy.phases[1].concurrency
            ELSE 1
      [] OTHER -> calc.maxConcurrency

\* (*RampUpCalculator).Start: the execution record; elapsed time is counted
\* from this instant
Start(calc) ==
    [CurrentPhase |-> 0,
     TargetConcurrency |-> getInitialConcurrency(calc),
     MaxConcurrency |-> calc.maxConcurrency]

\* the loop of getPhaseBasedConcurrency from phase i on: the index (from 1)
\* of the phase it returns from, or 0 when it runs past the last phase
RECURSIVE PhaseAt(_, _, _, _)
PhaseAt(phases, i, cumulativeDuration, elapsed) ==
    IF i > Len(phases) THEN 0
    ELSE IF elapsed <= cumulativeDuration + phases[i].duration THEN i
    ELSE PhaseAt(phases, i + 1, cumulativeDuration + phases[i].duration,
                 elapsed)

\* getPhaseBasedConcurrency with the comparison
\* elapsed < cumulativeDuration + phaseDuration
getPhaseBasedConcurrency_Strict(calc, elapsed) ==
    IF Len(calc.strategy.phases) = 0 THEN calc.maxConcurrency
    ELSE LET i == PhaseAt(calc.strategy.phases, 1, 0, elapsed + 1)
         IN IF i = 0 THEN calc.maxConcurrency
            ELSE calc.strategy.phases[i].concurrency

\* getPhaseBasedConcurrency holding the last phase's concurrency once every
\* phase has passed
getPhaseBasedConcurrency_HoldLast(calc, elapsed) ==
    IF Len(calc.strategy.phases) = 0 THEN calc.maxConcurrency
    ELSE LET i == PhaseAt(calc.strategy.phases, 1, 0, elapsed)
         IN IF i = 0
            THEN calc.strategy.phases[Len(calc.strategy.phases)].concurrency
            ELSE calc.strategy.phases[i].concurrency

getPhaseBasedConcurrency(calc, elapsed) ==
    IF Len(calc.strategy.phases) = 0 THEN calc.maxConcurrency
    ELSE LET i == PhaseAt(calc.strategy.phases, 1, 0, elapsed)
         IN IF i = 0 THEN calc.maxConcurrency
            ELSE calc.strategy.phases[i].concurrency

\* GetCurrentConcurrency's result at elapsed == time.Since(StartTime)
GetCurrentConcurrency(calc, elapsed) ==
    CASE calc.strategy.type = RampUpTypeImmediate -> calc.maxConcurrency
      [] calc.strategy.type = RampUpTypeLinear ->
            IF elapsed >= calc.duration THEN calc.maxConcurrency
            ELSE Float64ToInt(Float64Mul(calc.maxConcurrency,
                                         Float64Div(elapsed, calc.duration)))
      [] calc.strategy.type \in {RampUpTypeStep, RampUpTypeCustom} ->
            getPhaseBasedConcurrency(calc, elapsed)
      [] OTHER -> calc.maxConcurrency

\* GetCurrentConcurrency's writes to the execution record
ExecutionAfter(calc, execution, elapsed) ==
    LET i == IF calc.strategy.type \in {RampUpTypeStep, RampUpTypeCustom}
             THEN PhaseAt(calc.strategy.phases, 1, 0, elapsed)
             ELSE 0
    IN IF i = 0 THEN execution
       ELSE [execution EXCEPT
                !.CurrentPhase = i - 1,
                !.TargetConcurrency = calc.strategy.phases[i].concurrency]

RampPhases ==
    [duration : PhaseDurations, concurrency : PhaseConcurrencies,
     mode : PhaseModes]

PhaseLists == UNION {[1..n -> RampPhases] : n \in 0..MaxPhases}

\* strategies as a plan's ramp_up_strategy can carry them: built by the
\* constructors, or decoded from JSON with any type and phases
Strategies ==
    {CreateDefaultRampUp}
    \cup {CreateLinearRampUp(d) : d \in RampDurations}
    \cup {CreateStepRampUp(d, n) : d \in RampDurations, n \in StepCounts}
    \cup {CreateCustomRampUp(d, ph) : d \in RampDurations, ph \in PhaseLists}
    \cup {[type |-> "exponential", duration |-> d, phases |-> <<>>] :
             d \in RampDurations}

\* ------------------------------------------------------------- variables
VARIABLES
    now,               \* the clock
    testRunObjs,       \* the TestRun objects, by id (the heap)
    testRuns,          \* keys of c.testRuns
    currentTestRun,    \* c.currentTestRun (an id, or Nil)
    connectedAgents,   \* keys of c.connectedAgents
    agentResults,      \* c.agentResults: run id -> slice of AgentResult
    phaseOrchestrator, \* c.phaseOrchestrator (run id it was built for, or Nil)
    startTasks,        \* spawned `go c.startTestRun(r)` not yet run
    stopTasks,         \* spawned `go c.stopTestRun(r)` not yet run
    completionTimers,  \* time.AfterFunc(duration, completeTestRun) pending
    natsCommands,      \* commands published on armonite.test.command
    lastUpdate,        \* telemetry subscriber's lastUpdate map
    internalMsgs,      \* telemetry_update messages in flight
    handlerResults,    \* the internal handler's goroutine-local agentResults
    database,          \* the SQLite rows: test runs by id, agent results by run
    \* ---- one agent
    testCommandMsgs,   \* pending messages of the armonite.test.command subscription
    agentCommandMsgs,  \* pending messages of the armonite.agent.<id>.command one
    testCallback,      \* where the first subscription's callback is
    agentCallback,     \* where the second subscription's callback is
    running,           \* a.running
    testCompleted,     \* a.testCompleted
    currentTestRunID,  \* a.currentTestRunID (Nil = "")
    currentPlan,       \* a.currentPlan (<<>> = nil)
    planStopCh,        \* executeTestPlan's stopCh
    planWorkers,       \* live worker goroutines of executeTestPlan
    phaseStopCh,       \* a.phaseStopCh
    phaseWorkersStopCh, \* executePhaseLoad's stopCh
    phaseWorkers,      \* live phaseWorker goroutines
    planTestRunID,     \* TestRunID of the START whose worker pool is live
    phaseTestRunID,    \* TestRunID of the START_PHASE whose pool is live
    rampUpCalculator,  \* a.rampUpCalculator (<<>> = nil)
    rampUpExecution,   \* a.rampUpExecution (<<>> = nil)
    rampUpQuery,       \* the last GetCurrentConcurrency call: elapsed, result
    metrics,           \* a.metrics
    telemetry,         \* the last snapshot published on armonite.telemetry
    executionUpdate,   \* the last update published on armonite.agent.status
    phaseCompletions,  \* completions published on armonite.phase.complete.*
    rateLimiter        \* a.rateLimit, the a.rateLimiter channel and its use

coordVars ==
    <<now, testRunObjs, testRuns, currentTestRun, connectedAgents, agentResults,
      phaseOrchestrator, startTasks, stopTasks, completionTimers, natsCommands,
      lastUpdate, internalMsgs, handlerResults, database>>

agentVars ==
    <<testCommandMsgs, agentCommandMsgs, testCallback, agentCallback, running,
      testCompleted, currentTestRunID, currentPlan, planStopCh, planWorkers,
      phaseStopCh, phaseWorkersStopCh, phaseWorkers, planTestRunID,
      phaseTestRunID, rampUpCalculator, rampUpExecution, rampUpQuery, metrics,
      telemetry, executionUpdate, phaseCompletions, rateLimiter>>

rampVars == <<rampUpCalculator, rampUpExecution, rampUpQuery>>

VARIABLES
    phaseClock,        \* seconds since the PhaseOrchestrator was built
    po,                \* the PhaseOrchestrator and the position of executePhases
    phaseCommands,     \* per agent, pending on armonite.agent.<id>.command
    agentPhase,        \* per agent, handleAgentCommand's executePhase call
    phaseComplete      \* pending on armonite.phase.complete.<testRunID>

phaseVars == <<phaseClock, po, phaseCommands, agentPhase, phaseComplete>>

VARIABLES
    mu,                \* c.mu: the goroutine that holds the write lock
    lockPc             \* per coordinator goroutine, its position and its run

lockVars == <<mu, lockPc>>

VARIABLES
    lastSeen,          \* per agent, its AgentInfo.LastSeen (Nil when not registered)
    registerMsgs,      \* agents with a "register" pending on armonite.agent.register
    heartbeatMsgs,     \* agents with a message pending on armonite.agent.heartbeat
    heartbeatTicker,   \* per agent, when its heartbeat ticker fires next (Nil: not started)
    cleanupTicker,     \* when startAgentCleanup's ticker fires next
    registryClock,     \* the clock the registry's tickers and LastSeen read (seconds)
    lostHeartbeats     \* heartbeats the network has dropped

registryVars ==
    <<lastSeen, registerMsgs, heartbeatMsgs, heartbeatTicker, cleanupTicker,
      registryClock, lostHeartbeats>>

\* what the registration handlers leave alone
registryFrame ==
    <<heartbeatMsgs, heartbeatTicker, cleanupTicker, registryClock,
      lostHeartbeats>>

vars == <<coordVars, agentVars, phaseVars, lockVars, registryVars>>

Status(id) == testRunObjs[id].status

\* The status test the start and rerun handlers apply to c.currentTestRun.
AnotherRunActive ==
    /\ currentTestRun # Nil
    /\ Status(currentTestRun) \in {TestRunStatusRunning, TestRunStatusWaiting}

\* ------------------------------------------------------------ database
\* SaveTestRun: insert or replace the row of the run
SaveTestRun(db, id, tr) ==
    [db EXCEPT !.test_runs =
        [r \in DOMAIN db.test_runs \cup {id} |->
            IF r = id THEN tr ELSE db.test_runs[r]]]

\* DeleteTestRun: the run's agent results, then its row
DeleteTestRun(db, id) ==
    [test_runs |-> [r \in DOMAIN db.test_runs \ {id} |-> db.test_runs[r]],
     agent_results |-> [db.agent_results EXCEPT ![id] = <<>>]]

\* DeleteTestRunsByStatus: every row whose stored status is `status`
DeleteTestRunsByStatus(db, status) ==
    LET ids == {r \in DOMAIN db.test_runs : db.test_runs[r].status = status}
    IN [test_runs |-> [r \in DOMAIN db.test_runs \ ids |-> db.test_runs[r]],
        agent_results |->
            [r \in RunIds |-> IF r \in ids THEN <<>> ELSE db.agent_results[r]]]

\* SaveAgentResults: replace the run's agent results
SaveAgentResults(db, id, results) ==
    [db EXCEPT !.agent_results[id] = results]

\* ------------------------------------------------------- initial state
\* The stored runs loadTestRunsFromDatabase treats as active.
StoredActive(db) ==
    {r \in DOMAIN db.test_runs :
        db.test_runs[r].status \in {TestRunStatusRunning, TestRunStatusWaiting}}

Min(S) == CHOOSE x \in S : \A y \in S : x <= y

\* loadTestRunsFromDatabase walks the rows newest first and keeps the last
\* active one it meets as the current run.
LoadedCurrent(db) ==
    IF StoredActive(db) = {} THEN Nil ELSE Min(StoredActive(db))

\* A coordinator started on an empty database.
CoordinatorInit ==
    /\ now = 1
    /\ testRunObjs = <<>>
    /\ testRuns = {}
    /\ currentTestRun = Nil
    /\ connectedAgents = {}
    /\ agentResults = [r \in RunIds |-> <<>>]
    /\ phaseOrchestrator = Nil
    /\ startTasks = [r \in RunIds |-> 0]
    /\ stopTasks = [r \in RunIds |-> 0]
    /\ completionTimers = [r \in RunIds |-> 0]
    /\ natsCommands = {}
    /\ lastUpdate = [a \in Agents |-> Nil]
    /\ internalMsgs = <<>>
    /\ handlerResults = [r \in RunIds |-> <<>>]
    /\ database = [test_runs |-> <<>>, agent_results |-> [r \in RunIds |-> <<>>]]

\* A ticker's next firing; the clock stops at MaxRegistryTime and a ticker
\* armed past it fires there.
NextTick(interval) ==
    IF registryClock + interval > MaxRegistryTime THEN MaxRegistryTime
    ELSE registryClock + interval

\* The coordinator process ends and runCoordinator runs again on the same
\* database: memory is rebuilt from the rows, everything else starts empty.
\* (Objects of deleted runs stay in the heap model, unreferenced.)
Restart ==
    /\ testRunObjs' =
           [id \in DOMAIN testRunObjs |->
               IF id \in DOMAIN database.test_runs
               THEN database.test_runs[id] ELSE testRunObjs[id]]
    /\ testRuns' = DOMAIN database.test_runs
    /\ currentTestRun' = LoadedCurrent(database)
    /\ agentResults' =
           [r \in RunIds |->
               IF r \in StoredActive(database)
               THEN database.agent_results[r] ELSE <<>>]
    /\ connectedAgents' = {}
    /\ phaseOrchestrator' = Nil
    /\ startTasks' = [r \in RunIds |-> 0]
    /\ stopTasks' = [r \in RunIds |-> 0]
    /\ completionTimers' = [r \in RunIds |-> 0]
    /\ lastUpdate' = [a \in Agents |-> Nil]
    /\ internalMsgs' = <<>>
    /\ handlerResults' = [r \in RunIds |-> <<>>]
    /\ UNCHANGED <<now, natsCommands, database>>
    /\ UNCHANGED agentVars
    /\ UNCHANGED phaseVars
    /\ UNCHANGED lockVars
    /\ lastSeen' = [a \in Agents |-> Nil]
    /\ cleanupTicker' = NextTick(CleanupInterval)
    /\ UNCHANGED <<registerMsgs, heartbeatMsgs, heartbeatTicker, registryClock,
                   lostHeartbeats>>

\* ---------------------------------------------------------------- clock
Tick ==
    /\ now < MaxTime
    /\ now' = now + 1
    /\ UNCHANGED <<testRunObjs, testRuns, currentTestRun, connectedAgents,
                   agentResults, phaseOrchestrator, startTasks, stopTasks,
                   completionTimers, natsCommands, lastUpdate,
                   internalMsgs, handlerResults, database>>
    /\ UNCHANGED agentVars
    /\ UNCHANGED phaseVars
    /\ UNCHANGED lockVars
    /\ UNCHANGED registryVars

\* ------------------------------------------------------ API handlers
\* POST /test-runs
handleCreateTestRun(testPlan, minAgents) ==
    /\ UNCHANGED <<now, currentTestRun, connectedAgents, agentResults,
                   phaseOrchestrator, startTasks, stopTasks, completionTimers,
                   natsCommands, lastUpdate, internalMsgs, handlerResults>>
    /\ IF testPlan.endpoints = 0
       THEN UNCHANGED <<testRunObjs, testRuns, database>>
       ELSE /\ Len(testRunObjs) < MaxRuns
            /\ LET agentCount ==
                       IF minAgents = 0 THEN DefaultMinAgents ELSE minAgents
                   id == Len(testRunObjs) + 1
                   testRun == NewTestRun(testPlan, agentCount)
               IN /\ testRunObjs' = Append(testRunObjs, testRun)
                  /\ testRuns' = testRuns \cup {id}
                  /\ database' = SaveTestRun(database, id, testRun)
    /\ UNCHANGED agentVars
    /\ UNCHANGED phaseVars
    /\ UNCHANGED lockVars
    /\ UNCHANGED registryVars

\* The part the start and the rerun handler share once the run is admitted:
\* Start(), set the current run, then start at once or wait for agents.
AdmitRun(objs, id) ==
    /\ testRunObjs' = [objs EXCEPT ![id] = TestRunStart(objs[id], now)]
    /\ currentTestRun' = id
    /\ database' = SaveTestRun(database, id, TestRunStart(objs[id], now))
    /\ IF Cardinality(connectedAgents) >= objs[id].agent_count
       THEN startTasks' = [startTasks EXCEPT ![id] = @ + 1]
       ELSE UNCHANGED startTasks

\* POST /test-runs/:id/start
\* maxTasks bounds the start goroutines pending for one run
handleStartTestRunWithin(id, maxTasks) ==
    /\ UNCHANGED <<now, testRuns, connectedAgents, agentResults,
                   phaseOrchestrator, stopTasks, completionTimers,
                   natsCommands, lastUpdate, internalMsgs, handlerResults>>
    /\ IF id \notin testRuns
       THEN UNCHANGED <<testRunObjs, currentTestRun, startTasks, database>>
       ELSE IF Status(id) # TestRunStatusCreated
       THEN UNCHANGED <<testRunObjs, currentTestRun, startTasks, database>>
       ELSE IF AnotherRunActive
       THEN UNCHANGED <<testRunObjs, currentTestRun, startTasks, database>>
       ELSE /\ startTasks[id] < maxTasks
            /\ AdmitRun(testRunObjs, id)
    /\ UNCHANGED agentVars
    /\ UNCHANGED phaseVars
    /\ UNCHANGED lockVars
    /\ UNCHANGED registryVars

handleStartTestRun(id) == handleStartTestRunWithin(id, MaxTasks)

\* POST /test-runs/:id/stop
handleStopTestRun(id) ==
    /\ UNCHANGED <<now, testRunObjs, testRuns, currentTestRun, connectedAgents,
                   agentResults, phaseOrchestrator, startTasks,
                   completionTimers, natsCommands, lastUpdate, internalMsgs,
                   handlerResults, database>>
    /\ IF id \notin testRuns
       THEN UNCHANGED stopTasks
       ELSE IF Status(id) \notin {TestRunStatusRunning, TestRunStatusWaiting}
       THEN UNCHANGED stopTasks
       ELSE /\ stopTasks[id] < MaxTasks
            /\ stopTasks' = [stopTasks EXCEPT ![id] = @ + 1]
    /\ UNCHANGED agentVars
    /\ UNCHANGED phaseVars
    /\ UNCHANGED lockVars
    /\ UNCHANGED registryVars

\* DELETE /test-runs/:id
handleDeleteTestRun(id) ==
    /\ UNCHANGED <<now, testRunObjs, connectedAgents, phaseOrchestrator,
                   startTasks, stopTasks, completionTimers, natsCommands,
                   lastUpdate, internalMsgs, handlerResults>>
    /\ IF id \notin testRuns
       THEN UNCHANGED <<testRuns, currentTestRun, agentResults, database>>
       ELSE IF Status(id) \in {TestRunStatusRunning, TestRunStatusWaiting}
       THEN UNCHANGED <<testRuns, currentTestRun, agentResults, database>>
       ELSE /\ currentTestRun' =
                   IF currentTestRun = id THEN Nil ELSE currentTestRun
            /\ database' = DeleteTestRun(database, id)
            /\ testRuns' = testRuns \ {id}
            /\ agentResults' = [agentResults EXCEPT ![id] = <<>>]
    /\ UNCHANGED agentVars
    /\ UNCHANGED phaseVars
    /\ UNCHANGED lockVars
    /\ UNCHANGED registryVars

\* DELETE /test-runs with {status, confirm: true}
handleBulkDeleteTestRuns(status) ==
    /\ UNCHANGED <<now, testRunObjs, currentTestRun, connectedAgents,
                   phaseOrchestrator, startTasks, stopTasks, completionTimers,
                   natsCommands, lastUpdate, internalMsgs, handlerResults>>
    /\ LET gone == {id \in testRuns :
                       /\ Status(id) = status
                       /\ Status(id) \notin {TestRunStatusRunning,
                                             TestRunStatusWaiting}}
       IN /\ database' = DeleteTestRunsByStatus(database, status)
          /\ testRuns' = testRuns \ gone
          /\ agentResults' =
                 [r \in RunIds |-> IF r \in gone THEN <<>> ELSE agentResults[r]]
    /\ UNCHANGED agentVars
    /\ UNCHANGED phaseVars
    /\ UNCHANGED lockVars
    /\ UNCHANGED registryVars

\* POST /test-runs/:id/rerun
handleRerunTestRun(id) ==
    /\ UNCHANGED <<now, connectedAgents, agentResults, phaseOrchestrator,
                   stopTasks, completionTimers, natsCommands, lastUpdate,
                   internalMsgs, handlerResults>>
    /\ IF id \notin testRuns
       THEN UNCHANGED <<testRunObjs, testRuns, currentTestRun, startTasks,
                        database>>
       ELSE IF Status(id) \in {TestRunStatusRunning, TestRunStatusWaiting,
                               TestRunStatusCreated}
       THEN UNCHANGED <<testRunObjs, testRuns, currentTestRun, startTasks,
                        database>>
       ELSE IF AnotherRunActive
       THEN UNCHANGED <<testRunObjs, testRuns, currentTestRun, startTasks,
                        database>>
       ELSE /\ Len(testRunObjs) < MaxRuns
            /\ LET newId == Len(testRunObjs) + 1
                   newTestRun == NewTestRun(testRunObjs[id].test_plan,
                                            testRunObjs[id].agent_count)
               IN /\ testRuns' = testRuns \cup {newId}
                  /\ AdmitRun(Append(testRunObjs, newTestRun), newId)
    /\ UNCHANGED agentVars
    /\ UNCHANGED phaseVars
    /\ UNCHANGED lockVars
    /\ UNCHANGED registryVars

\* -------------------------------------------------- asynchronous tasks
StartCommand(id, testPlan) ==
    [command |-> "START", test_run_id |-> id, test_plan |-> testPlan]

StopCommand(id) ==
    [command |-> "STOP", test_run_id |-> id, test_plan |-> PlanNoEndpoints]

\* go c.startTestRun(testRun): MarkRunning, broadcastTestStart, then the
\* completion timer. publishOk is the outcome of natsConn.Publish.
startTestRunWithin(id, publishOk, maxTasks) ==
    /\ startTasks[id] > 0
    /\ startTasks' = [startTasks EXCEPT ![id] = @ - 1]
    /\ UNCHANGED <<now, testRuns, currentTestRun, connectedAgents, agentResults,
                   stopTasks, lastUpdate, internalMsgs,
                   handlerResults, database>>
    /\ LET tr == MarkRunning(testRunObjs[id])
       IN IF hasSequentialPhases(tr.test_plan.ramp_up_strategy)
          THEN /\ completionTimers[id] < maxTasks
               /\ phaseOrchestrator' = id
               /\ testRunObjs' = [testRunObjs EXCEPT ![id] = tr]
               /\ completionTimers' = [completionTimers EXCEPT ![id] = @ + 1]
               /\ UNCHANGED natsCommands
          ELSE IF publishOk
          THEN /\ completionTimers[id] < maxTasks
               /\ natsCommands' =
                      natsCommands \cup {StartCommand(id, tr.test_plan)}
               /\ testRunObjs' = [testRunObjs EXCEPT ![id] = tr]
               /\ completionTimers' = [completionTimers EXCEPT ![id] = @ + 1]
               /\ UNCHANGED phaseOrchestrator
          ELSE /\ testRunObjs' = [testRunObjs EXCEPT ![id] = Fail(tr, now)]
               /\ UNCHANGED <<phaseOrchestrator, completionTimers, natsCommands>>
    /\ UNCHANGED agentVars
    /\ UNCHANGED phaseVars
    /\ UNCHANGED lockVars
    /\ UNCHANGED registryVars

startTestRun(id, publishOk) == startTestRunWithin(id, publishOk, MaxTasks)

\* go c.stopTestRun(testRun): publish STOP, then status = completing
stopTestRun(id) ==
    /\ stopTasks[id] > 0
    /\ stopTasks' = [stopTasks EXCEPT ![id] = @ - 1]
    /\ natsCommands' = natsCommands \cup {StopCommand(id)}
    /\ testRunObjs' =
           [testRunObjs EXCEPT ![id].status = TestRunStatusCompleting]
    /\ UNCHANGED <<now, testRuns, currentTestRun, connectedAgents, agentResults,
                   phaseOrchestrator, startTasks, completionTimers,
                   lastUpdate, internalMsgs, handlerResults, database>>
    /\ UNCHANGED agentVars
    /\ UNCHANGED phaseVars
    /\ UNCHANGED lockVars
    /\ UNCHANGED registryVars

\* The completion timer fires: completeTestRun(testRunID)
completeTestRun(id) ==
    /\ completionTimers[id] > 0
    /\ completionTimers' = [completionTimers EXCEPT ![id] = @ - 1]
    /\ UNCHANGED <<now, testRuns, connectedAgents, agentResults, startTasks,
                   stopTasks, natsCommands, lastUpdate, internalMsgs,
                   handlerResults>>
    /\ IF id \notin testRuns
       THEN UNCHANGED <<testRunObjs, currentTestRun, phaseOrchestrator,
                        database>>
       ELSE /\ phaseOrchestrator' = Nil
            /\ testRunObjs' =
                   [testRunObjs EXCEPT ![id] =
                       Complete(@, AggregateResults(@, agentResults[id]), now)]
            /\ database' = SaveTestRun(database, id, testRunObjs'[id])
            /\ currentTestRun' =
                   IF currentTestRun = id THEN Nil ELSE currentTestRun
    /\ UNCHANGED agentVars
    /\ UNCHANGED phaseVars
    /\ UNCHANGED lockVars
    /\ UNCHANGED registryVars

\* ------------------------------------------------------------ registry
\* A quorum test that needs one agent more than the run's agent count.
QuorumReached_Strict(agents) ==
    /\ currentTestRun # Nil
    /\ Status(currentTestRun) = TestRunStatusWaiting
    /\ Cardinality(agents) > testRunObjs[currentTestRun].agent_count

\* The run a registration starts: the current run, when it is waiting and
\* the registry (with the new agent) has reached its agent count.
QuorumReached(agents) ==
    /\ currentTestRun # Nil
    /\ Status(currentTestRun) = TestRunStatusWaiting
    /\ Cardinality(agents) >= testRunObjs[currentTestRun].agent_count

handleAgentRegistrationWithin(a, maxTasks) ==
    /\ connectedAgents' = connectedAgents \cup {a}
    /\ lastSeen' = [lastSeen EXCEPT ![a] = registryClock]
    /\ registerMsgs' = registerMsgs \ {a}
    /\ UNCHANGED registryFrame
    /\ IF a \notin connectedAgents /\ QuorumReached(connectedAgents \cup {a})
       THEN /\ startTasks[currentTestRun] < maxTasks
            /\ startTasks' = [startTasks EXCEPT ![currentTestRun] = @ + 1]
       ELSE UNCHANGED startTasks
    /\ UNCHANGED <<now, testRunObjs, testRuns, currentTestRun, agentResults,
                   phaseOrchestrator, stopTasks, completionTimers,
                   natsCommands, lastUpdate, internalMsgs, handlerResults,
                   database>>
    /\ UNCHANGED agentVars
    /\ UNCHANGED phaseVars
    /\ UNCHANGED lockVars

handleAgentRegistration(a) == handleAgentRegistrationWithin(a, MaxTasks)

handleAgentUnregistration(a) ==
    /\ connectedAgents' = connectedAgents \ {a}
    /\ lastSeen' = [lastSeen EXCEPT ![a] = Nil]
    /\ UNCHANGED <<registerMsgs, registryFrame>>
    /\ UNCHANGED <<now, testRunObjs, testRuns, currentTestRun, agentResults,
                   phaseOrchestrator, startTasks, stopTasks, completionTimers,
                   natsCommands, lastUpdate, internalMsgs,
                   handlerResults, database>>
    /\ UNCHANGED agentVars
    /\ UNCHANGED phaseVars
    /\ UNCHANGED lockVars

\* ----------------------------------------------------------- telemetry
\* The armonite.telemetry subscriber: per-agent rate limit, then the
\* snapshot is republished on armonite.coordinator.internal.
RateLimited_Never(a) == FALSE

RateLimited(a) ==
    lastUpdate[a] # Nil /\ now - lastUpdate[a] < RateLimitSeconds

telemetrySubscriber(a, snap) ==
    /\ IF RateLimited(a)
       THEN UNCHANGED <<lastUpdate, internalMsgs>>
       ELSE /\ Len(internalMsgs) < MaxInternal
            /\ lastUpdate' = [lastUpdate EXCEPT ![a] = now]
            /\ internalMsgs' =
                   Append(internalMsgs,
                          [agent_id |-> a, requests |-> snap.requests,
                           errors |-> snap.errors])
    /\ UNCHANGED <<now, testRunObjs, testRuns, currentTestRun, connectedAgents,
                   agentResults, phaseOrchestrator, startTasks, stopTasks,
                   completionTimers, natsCommands, handlerResults, database>>
    /\ UNCHANGED agentVars
    /\ UNCHANGED phaseVars
    /\ UNCHANGED lockVars
    /\ UNCHANGED registryVars

Upsert_Append(results, newResult) == Append(results, newResult)

\* Replace the entry of the same agent, or append.
RECURSIVE Upsert(_, _)
Upsert(results, newResult) ==
    IF results = <<>> THEN <<newResult>>
    ELSE IF Head(results).agent_id = newResult.agent_id
    THEN <<newResult>> \o Tail(results)
    ELSE <<Head(results)>> \o Upsert(Tail(results), newResult)

\* The internal handler takes a telemetry_update: the run is the current
\* run at this moment; the rollup goes to the handler's own map.
processTelemetryUpdate ==
    /\ internalMsgs # <<>>
    /\ internalMsgs' = Tail(internalMsgs)
    /\ IF currentTestRun = Nil
       THEN UNCHANGED <<handlerResults, database>>
       ELSE /\ handlerResults' =
                   [handlerResults EXCEPT ![currentTestRun] =
                       Upsert(@, Head(internalMsgs))]
            /\ database' =
                   SaveAgentResults(database, currentTestRun,
                                    handlerResults'[currentTestRun])
    /\ UNCHANGED <<now, testRunObjs, testRuns, currentTestRun, connectedAgents,
                   agentResults, phaseOrchestrator, startTasks, stopTasks,
                   completionTimers, natsCommands, lastUpdate>>
    /\ UNCHANGED agentVars
    /\ UNCHANGED phaseVars
    /\ UNCHANGED lockVars
    /\ UNCHANGED registryVars

\* ================================================================ agent
\* One agent process. Each NATS subscription delivers its messages to its
\* callback one at a time: while a callback has not returned, the messages
\* behind it stay pending.
NoMetrics == [Requests |-> 0, Errors |-> 0, StatusCodes |-> 0]

NoUpdate == [status |-> "none", test_run_id |-> Nil]

\* The phase a START_PHASE command carries.
PhaseInfo == [phase_index |-> 0, concurrency |-> 1]

\* Commands the coordinator side may publish to the agent.
TestCommands ==
    {StartCommand(1, PlanSimple)} \cup {StopCommand(id) : id \in {Nil} \cup RunIds}

AgentCommands ==
    {[command |-> c, test_run_id |-> id] :
        c \in {"START_PHASE", "STOP_PHASE"}, id \in RunIds}

\* The agent before runAgent built it: no rate limit read, no channel made.
\* ticks and acquired count the ticker's ticks and the returns of
\* waitForRateLimit.
NoRateLimiter ==
    [built |-> FALSE, rateLimit |-> 0, made |-> FALSE, tokens |-> 0,
     ticks |-> 0, acquired |-> 0]

AgentInit ==
    /\ testCommandMsgs = <<>>
    /\ agentCommandMsgs = <<>>
    /\ testCallback = "idle"
    /\ agentCallback = "idle"
    /\ running = FALSE
    /\ testCompleted = FALSE
    /\ currentTestRunID = Nil
    /\ currentPlan = <<>>
    /\ planStopCh = "none"
    /\ planWorkers = 0
    /\ phaseStopCh = "nil"
    /\ phaseWorkersStopCh = "none"
    /\ phaseWorkers = 0
    /\ planTestRunID = Nil
    /\ phaseTestRunID = Nil
    /\ rampUpCalculator = <<>>
    /\ rampUpExecution = <<>>
    /\ rampUpQuery = <<>>
    /\ metrics = NoMetrics
    /\ telemetry = <<>>
    /\ executionUpdate = NoUpdate
    /\ phaseCompletions = {}
    /\ rateLimiter = NoRateLimiter

\* sendExecutionUpdate: the update carries a.currentTestRunID when it is set
sendExecutionUpdate(status, runId) == [status |-> status, test_run_id |-> runId]

\* A message arrives on armonite.test.command.
subscribeTestCommand(command) ==
    /\ Len(testCommandMsgs) < MaxQueue
    /\ testCommandMsgs' = Append(testCommandMsgs, command)
    /\ UNCHANGED <<agentCommandMsgs, testCallback, agentCallback, running,
                   testCompleted, currentTestRunID, currentPlan, planStopCh,
                   planWorkers, phaseStopCh, phaseWorkersStopCh, phaseWorkers,
                   metrics, telemetry, executionUpdate, phaseCompletions>>
    /\ UNCHANGED <<planTestRunID, phaseTestRunID>>
    /\ UNCHANGED rampVars
    /\ UNCHANGED rateLimiter
    /\ UNCHANGED coordVars
    /\ UNCHANGED phaseVars
    /\ UNCHANGED lockVars
    /\ UNCHANGED registryVars

\* A message arrives on armonite.agent.<id>.command.
subscribeAgentCommand(command) ==
    /\ Len(agentCommandMsgs) < MaxPhaseQueue
    /\ agentCommandMsgs' = Append(agentCommandMsgs, command)
    /\ UNCHANGED <<testCommandMsgs, testCallback, agentCallback, running,
                   testCompleted, currentTestRunID, currentPlan, planStopCh,
                   planWorkers, phaseStopCh, phaseWorkersStopCh, phaseWorkers,
                   metrics, telemetry, executionUpdate, phaseCompletions>>
    /\ UNCHANGED <<planTestRunID, phaseTestRunID>>
    /\ UNCHANGED rampVars
    /\ UNCHANGED rateLimiter
    /\ UNCHANGED coordVars
    /\ UNCHANGED phaseVars
    /\ UNCHANGED lockVars
    /\ UNCHANGED registryVars

stopTest_Toggle ==
    /\ running' = FALSE
    /\ testCompleted' = ~testCompleted
    /\ phaseStopCh' = IF phaseStopCh = "open" THEN "closed" ELSE phaseStopCh

\* stopTest: the flags, and the phase channel when there is one
stopTest ==
    /\ running' = FALSE
    /\ testCompleted' = TRUE
    /\ phaseStopCh' = IF phaseStopCh = "open" THEN "closed" ELSE phaseStopCh

\* handleTestCommand up to the point where it returns or blocks in
\* executeTestPlan's wg.Wait().
handleTestCommand ==
    /\ testCallback = "idle"
    /\ testCommandMsgs # <<>>
    /\ testCommandMsgs' = Tail(testCommandMsgs)
    /\ UNCHANGED <<agentCommandMsgs, agentCallback, phaseWorkersStopCh,
                   phaseWorkers, phaseTestRunID, telemetry, phaseCompletions>>
    /\ LET command == Head(testCommandMsgs)
           runId == IF command.test_run_id # Nil THEN command.test_run_id
                    ELSE currentTestRunID
           strategy == IF command.command = "START"
                            /\ command.test_plan.ramp_up_strategy # NoStrategy
                       THEN command.test_plan.ramp_up_strategy
                       ELSE CreateDefaultRampUp
           calc == NewRampUpCalculator(strategy, Concurrency)
       IN IF command.command = "START"
          THEN /\ currentTestRunID' = runId
               /\ UNCHANGED phaseStopCh
               /\ IF running
                  THEN /\ executionUpdate' = sendExecutionUpdate("starting", runId)
                       /\ UNCHANGED <<testCallback, running, testCompleted,
                                      currentPlan, planStopCh, planWorkers,
                                      planTestRunID, metrics, rampVars>>
                  ELSE /\ running' = TRUE
                       /\ testCompleted' = FALSE
                       /\ currentPlan' = <<command.test_plan>>
                       /\ metrics' = NoMetrics
                       /\ executionUpdate' = sendExecutionUpdate("running", runId)
                       /\ planStopCh' = "open"
                       /\ rampUpCalculator' = <<calc>>
                       /\ rampUpExecution' =
                              <<ExecutionAfter(calc, Start(calc), 0)>>
                       /\ rampUpQuery' =
                              <<[elapsed |-> 0,
                                 targetConcurrency |->
                                     GetCurrentConcurrency(calc, 0)]>>
                       /\ planWorkers' = GetCurrentConcurrency(calc, 0)
                       /\ planTestRunID' = command.test_run_id
                       /\ testCallback' = "executeTestPlan"
          ELSE IF command.test_run_id # Nil
                  /\ command.test_run_id # currentTestRunID
          THEN UNCHANGED <<testCallback, running, testCompleted,
                           currentTestRunID, currentPlan, planStopCh,
                           planWorkers, planTestRunID, phaseStopCh, metrics,
                           executionUpdate, rampVars>>
          ELSE /\ executionUpdate' =
                      sendExecutionUpdate("stopping", currentTestRunID)
               /\ stopTest
               /\ UNCHANGED <<testCallback, currentTestRunID, currentPlan,
                              planStopCh, planWorkers, planTestRunID, metrics,
                              rampVars>>
    /\ UNCHANGED rateLimiter
    /\ UNCHANGED coordVars
    /\ UNCHANGED phaseVars
    /\ UNCHANGED lockVars
    /\ UNCHANGED registryVars

\* executeTestPlan's time.AfterFunc(duration, close(stopCh))
planTimer ==
    /\ planStopCh = "open"
    /\ planStopCh' = "closed"
    /\ UNCHANGED <<testCommandMsgs, agentCommandMsgs, testCallback,
                   agentCallback, running, testCompleted, currentTestRunID,
                   currentPlan, planWorkers, phaseStopCh, phaseWorkersStopCh,
                   phaseWorkers, metrics, telemetry, executionUpdate,
                   phaseCompletions>>
    /\ UNCHANGED <<planTestRunID, phaseTestRunID>>
    /\ UNCHANGED rampVars
    /\ UNCHANGED rateLimiter
    /\ UNCHANGED coordVars
    /\ UNCHANGED phaseVars
    /\ UNCHANGED lockVars
    /\ UNCHANGED registryVars

\* recordRequest / recordError, as executeRequest calls them
recordRequest(m) ==
    [m EXCEPT !.Requests = @ + 1, !.StatusCodes = @ + 1]

recordError(m) == [m EXCEPT !.Errors = @ + 1]

executeRequest(gotResponse) ==
    /\ metrics.Requests + metrics.Errors < MaxRequests
    /\ metrics' = IF gotResponse THEN recordRequest(metrics)
                  ELSE recordError(metrics)

\* A worker of executeTestPlan takes an endpoint and issues the request,
\* or sees stopCh closed and returns.
worker(gotResponse) ==
    /\ planWorkers > 0
    /\ IF planStopCh = "closed"
       THEN /\ planWorkers' = planWorkers - 1
            /\ UNCHANGED metrics
       ELSE /\ executeRequest(gotResponse)
            /\ UNCHANGED planWorkers
    /\ UNCHANGED <<testCommandMsgs, agentCommandMsgs, testCallback,
                   agentCallback, running, testCompleted, currentTestRunID,
                   currentPlan, planStopCh, phaseStopCh, phaseWorkersStopCh,
                   phaseWorkers, telemetry, executionUpdate, phaseCompletions>>
    /\ UNCHANGED <<planTestRunID, phaseTestRunID>>
    /\ UNCHANGED rampVars
    /\ UNCHANGED rateLimiter
    /\ UNCHANGED coordVars
    /\ UNCHANGED phaseVars
    /\ UNCHANGED lockVars
    /\ UNCHANGED registryVars

\* executeTestPlan after wg.Wait(): flags, then the completed update
executeTestPlan ==
    /\ testCallback = "executeTestPlan"
    /\ planWorkers = 0
    /\ running' = FALSE
    /\ testCompleted' = TRUE
    /\ executionUpdate' = sendExecutionUpdate("completed", currentTestRunID)
    /\ planStopCh' = "none"
    /\ testCallback' = "idle"
    /\ planTestRunID' = Nil
    /\ UNCHANGED <<testCommandMsgs, agentCommandMsgs, agentCallback,
                   currentTestRunID, currentPlan, planWorkers, phaseStopCh,
                   phaseWorkersStopCh, phaseWorkers, phaseTestRunID, metrics,
                   telemetry, phaseCompletions>>
    /\ UNCHANGED rampVars
    /\ UNCHANGED rateLimiter
    /\ UNCHANGED coordVars
    /\ UNCHANGED phaseVars
    /\ UNCHANGED lockVars
    /\ UNCHANGED registryVars

\* handleAgentCommand up to the point where it returns or blocks in
\* executePhaseLoad's select.
handleAgentCommand ==
    /\ agentCallback = "idle"
    /\ agentCommandMsgs # <<>>
    /\ agentCommandMsgs' = Tail(agentCommandMsgs)
    /\ UNCHANGED <<testCommandMsgs, testCallback, running, testCompleted,
                   currentTestRunID, currentPlan, planStopCh, planWorkers,
                   metrics, telemetry, phaseCompletions>>
    /\ UNCHANGED planTestRunID
    /\ IF Head(agentCommandMsgs).command = "START_PHASE"
       THEN /\ phaseStopCh' = "open"
            /\ phaseTestRunID' = Head(agentCommandMsgs).test_run_id
            /\ executionUpdate' =
                   sendExecutionUpdate("running", currentTestRunID)
            /\ phaseWorkers' =
                   IF PhaseInfo.concurrency > Concurrency THEN Concurrency
                   ELSE PhaseInfo.concurrency
            /\ phaseWorkersStopCh' = "open"
            /\ agentCallback' = "executePhaseLoad"
       ELSE /\ phaseStopCh' =
                   IF phaseStopCh = "open" THEN "closed" ELSE phaseStopCh
            /\ UNCHANGED <<executionUpdate, phaseWorkers, phaseWorkersStopCh,
                           phaseTestRunID, agentCallback>>
    /\ UNCHANGED rampVars
    /\ UNCHANGED rateLimiter
    /\ UNCHANGED coordVars
    /\ UNCHANGED phaseVars
    /\ UNCHANGED lockVars
    /\ UNCHANGED registryVars

\* executePhaseLoad's select: the phase timer fires (byTimer) or
\* a.phaseStopCh is closed; then close(stopCh).
executePhaseLoad(byTimer) ==
    /\ agentCallback = "executePhaseLoad"
    /\ phaseWorkersStopCh = "open"
    /\ byTimer \/ phaseStopCh = "closed"
    /\ phaseWorkersStopCh' = "closed"
    /\ UNCHANGED <<testCommandMsgs, agentCommandMsgs, testCallback,
                   agentCallback, running, testCompleted, currentTestRunID,
                   currentPlan, planStopCh, planWorkers, phaseStopCh,
                   phaseWorkers, metrics, telemetry, executionUpdate,
                   phaseCompletions>>
    /\ UNCHANGED <<planTestRunID, phaseTestRunID>>
    /\ UNCHANGED rampVars
    /\ UNCHANGED rateLimiter
    /\ UNCHANGED coordVars
    /\ UNCHANGED phaseVars
    /\ UNCHANGED lockVars
    /\ UNCHANGED registryVars

\* A phase worker issues a request (the generator runs only with a current
\* plan), or sees stopCh closed and returns.
phaseWorker(gotResponse) ==
    /\ phaseWorkers > 0
    /\ IF phaseWorkersStopCh = "closed"
       THEN /\ phaseWorkers' = phaseWorkers - 1
            /\ UNCHANGED metrics
       ELSE /\ currentPlan # <<>>
            /\ executeRequest(gotResponse)
            /\ UNCHANGED phaseWorkers
    /\ UNCHANGED <<testCommandMsgs, agentCommandMsgs, testCallback,
                   agentCallback, running, testCompleted, currentTestRunID,
                   currentPlan, planStopCh, planWorkers, phaseStopCh,
                   phaseWorkersStopCh, telemetry, executionUpdate,
                   phaseCompletions>>
    /\ UNCHANGED <<planTestRunID, phaseTestRunID>>
    /\ UNCHANGED rampVars
    /\ UNCHANGED rateLimiter
    /\ UNCHANGED coordVars
    /\ UNCHANGED phaseVars
    /\ UNCHANGED lockVars
    /\ UNCHANGED registryVars

\* executePhase after executePhaseLoad returned: the completion signal
executePhase ==
    /\ agentCallback = "executePhaseLoad"
    /\ phaseWorkersStopCh = "closed"
    /\ phaseWorkers = 0
    /\ phaseCompletions' =
           phaseCompletions \cup
               {[phase_index |-> PhaseInfo.phase_index,
                 test_run_id |-> currentTestRunID]}
    /\ phaseWorkersStopCh' = "none"
    /\ agentCallback' = "idle"
    /\ phaseTestRunID' = Nil
    /\ UNCHANGED <<testCommandMsgs, agentCommandMsgs, testCallback, running,
                   testCompleted, currentTestRunID, currentPlan, planStopCh,
                   planWorkers, planTestRunID, phaseStopCh, phaseWorkers,
                   metrics, telemetry, executionUpdate>>
    /\ UNCHANGED rampVars
    /\ UNCHANGED rateLimiter
    /\ UNCHANGED coordVars
    /\ UNCHANGED phaseVars
    /\ UNCHANGED lockVars
    /\ UNCHANGED registryVars

\* reportMetrics, on the reporting ticker: nothing while Requests is 0
reportMetrics ==
    /\ telemetry' =
           IF metrics.Requests = 0 THEN telemetry
           ELSE <<[requests |-> metrics.Requests, errors |-> metrics.Errors,
                   status_codes |-> metrics.StatusCodes]>>
    /\ UNCHANGED <<testCommandMsgs, agentCommandMsgs, testCallback,
                   agentCallback, running, testCompleted, currentTestRunID,
                   currentPlan, planStopCh, planWorkers, phaseStopCh,
                   phaseWorkersStopCh, phaseWorkers, metrics, executionUpdate,
                   phaseCompletions>>
    /\ UNCHANGED <<planTestRunID, phaseTestRunID>>
    /\ UNCHANGED rampVars
    /\ UNCHANGED rateLimiter
    /\ UNCHANGED coordVars
    /\ UNCHANGED phaseVars
    /\ UNCHANGED lockVars
    /\ UNCHANGED registryVars

\* ------------------------------------------------------- rate limiter
\* what the rate limiter's steps leave alone
limiterFrame ==
    <<testCommandMsgs, agentCommandMsgs, testCallback, agentCallback, running,
      testCompleted, currentTestRunID, currentPlan, planStopCh, planWorkers,
      phaseStopCh, phaseWorkersStopCh, phaseWorkers, planTestRunID,
      phaseTestRunID, rampUpCalculator, rampUpExecution, rampUpQuery, metrics,
      telemetry, executionUpdate, phaseCompletions>>

\* runAgent builds the agent with the --rate-limit flag: the channel of
\* capacity rateLimit is made, and the ticker goroutine started, only if
\* rateLimit > 0
runAgent(rateLimit) ==
    /\ ~rateLimiter.built
    /\ rateLimiter' = [rateLimiter EXCEPT !.built = TRUE,
                                          !.rateLimit = rateLimit,
                                          !.made = rateLimit > 0]
    /\ UNCHANGED limiterFrame
    /\ UNCHANGED <<coordVars, phaseVars, lockVars, registryVars>>

startRateLimiter_Unbounded ==
    /\ rateLimiter.made
    /\ rateLimiter.ticks < MaxTicks
    /\ rateLimiter' = [rateLimiter EXCEPT !.ticks = @ + 1, !.tokens = @ + 1]
    /\ UNCHANGED limiterFrame
    /\ UNCHANGED <<coordVars, phaseVars, lockVars, registryVars>>

\* startRateLimiter, one tick of its ticker: a token goes into the channel
\* unless the channel is full
startRateLimiter ==
    /\ rateLimiter.made
    /\ rateLimiter.ticks < MaxTicks
    /\ rateLimiter' =
           [rateLimiter EXCEPT
               !.ticks = @ + 1,
               !.tokens = IF @ < rateLimiter.rateLimit THEN @ + 1 ELSE @]
    /\ UNCHANGED limiterFrame
    /\ UNCHANGED <<coordVars, phaseVars, lockVars, registryVars>>

\* waitForRateLimit returns: at once when there is no channel, else with a
\* token received from it
waitForRateLimit ==
    /\ rateLimiter.built
    /\ rateLimiter.acquired < MaxTicks
    /\ IF rateLimiter.made
       THEN /\ rateLimiter.tokens > 0
            /\ rateLimiter' = [rateLimiter EXCEPT !.tokens = @ - 1,
                                                  !.acquired = @ + 1]
       ELSE rateLimiter' = [rateLimiter EXCEPT !.acquired = @ + 1]
    /\ UNCHANGED limiterFrame
    /\ UNCHANGED <<coordVars, phaseVars, lockVars, registryVars>>

\* An agent's rate limiter, for the rate limits of RateLimits.
LimiterNext ==
    \/ \E rateLimit \in RateLimits : runAgent(rateLimit)
    \/ startRateLimiter
    \/ waitForRateLimit

\* ------------------------------------------------------- specification
\* The status filters a bulk delete request is sent with.
BulkStatuses ==
    {TestRunStatusCreated, TestRunStatusWaiting, TestRunStatusCompleted,
     TestRunStatusFailed}

\* The run lifecycle: API handlers, registry, tasks and timers.
Lifecycle ==
    \/ Tick
    \/ \E req \in CreateRequests :
          handleCreateTestRun(req.test_plan, req.min_agents)
    \/ \E id \in RunIds : handleStartTestRun(id)
    \/ \E id \in RunIds : handleStopTestRun(id)
    \/ \E id \in RunIds : handleDeleteTestRun(id)
    \/ \E st \in BulkStatuses : handleBulkDeleteTestRuns(st)
    \/ \E id \in RunIds : handleRerunTestRun(id)
    \/ \E id \in RunIds, ok \in BOOLEAN : startTestRun(id, ok)
    \/ \E id \in RunIds : stopTestRun(id)
    \/ \E id \in RunIds : completeTestRun(id)
    \/ \E a \in Agents : handleAgentRegistration(a)
    \/ \E a \in Agents : handleAgentUnregistration(a)

\* ------------------------------------------------- phase orchestration
\* One run of a PhaseOrchestrator over the agents 1..NumAgents. phaseComplete
\* holds the completions on the orchestrator's own subject,
\* armonite.phase.complete.<po.testRunID>: the agents here publish there
\* (OrchestratedSpec has the subject an agent of a real run publishes on).
\* Timers fire when they are due and callbacks run as soon as they can; the
\* one delay is wg.Wait() in executePhaseLoad, where a phaseWorker sleeping
\* its think time returns only when the sleep ends.
OrchestratedPhases ==
    {[duration |-> d, concurrency |-> 1, mode |-> m] :
        d \in PhaseSeconds, m \in {"parallel", "sequential"}}

OrchestratedPlans == [1..2 -> OrchestratedPhases]

IdlePhase == [pc |-> "idle", phase |-> Nil, start |-> 0, deadline |-> 0]

PhaseInit ==
    /\ phaseClock = 0
    /\ po = [pc |-> "none", phases |-> <<>>, currentPhase |-> 0,
             phaseStartTime |-> 0, nextAgent |-> 0, wake |-> 0,
             completedAgents |-> {}, phaseDoneCh |-> 0, stopCh |-> "open"]
    /\ phaseCommands = [a \in Agents |-> <<>>]
    /\ agentPhase = [a \in Agents |-> IdlePhase]
    /\ phaseComplete = {}

\* NewPhaseOrchestrator and Start for a plan with phases
NewPhaseOrchestrator(phases) ==
    /\ po.pc = "none"
    /\ po' = [po EXCEPT !.pc = "loop", !.phases = phases]
    /\ UNCHANGED <<phaseClock, phaseCommands, agentPhase, phaseComplete>>
    /\ UNCHANGED <<coordVars, agentVars>>
    /\ UNCHANGED lockVars
    /\ UNCHANGED registryVars

\* the PhaseInfo of a START_PHASE, with the time it was published and the
\* time its phase began
sendPhaseCommand(phaseIndex, mode, duration) ==
    [phaseIndex |-> phaseIndex, mode |-> mode, duration |-> duration,
     sentAt |-> phaseClock, phaseStartTime |-> po.phaseStartTime]

timePerAgent(phase) == phase.duration \div Cardinality(Agents)

\* the head of executePhases' loop: the next phase begins, or the loop ends
\* (no phase is left, or stopCh is closed)
executePhases ==
    /\ po.pc = "loop"
    /\ IF po.currentPhase = Len(po.phases) \/ po.stopCh = "closed"
       THEN po' = [po EXCEPT !.pc = "done"]
       ELSE po' = [po EXCEPT
                      !.currentPhase = po.currentPhase + 1,
                      !.phaseStartTime = phaseClock,
                      !.completedAgents = {},
                      !.nextAgent = 1,
                      !.wake = phaseClock,
                      !.pc = po.phases[po.currentPhase + 1].mode]
    /\ UNCHANGED <<phaseClock, phaseCommands, agentPhase, phaseComplete>>
    /\ UNCHANGED <<coordVars, agentVars>>
    /\ UNCHANGED lockVars
    /\ UNCHANGED registryVars

\* one iteration of executeSequentialPhase's loop over the sorted agent ids:
\* the sleep before agents after the first is over, and START_PHASE goes to
\* the agent; then the next iteration looks at stopCh and returns or goes to
\* sleep. After the last agent, or on return, executePhases arms the phase
\* timer. The look at stopCh at the head of executePhases' loop counts as
\* made with the first iteration's.
executeSequentialPhase ==
    /\ po.pc = "sequential"
    /\ po.wake <= phaseClock
    /\ LET phase == po.phases[po.currentPhase]
           a == po.nextAgent
       IN IF a = 1 /\ po.stopCh = "closed"
          THEN /\ po' = [po EXCEPT !.pc = "done"]
               /\ UNCHANGED phaseCommands
          ELSE /\ phaseCommands' =
                      [phaseCommands EXCEPT
                          ![a] = Append(@, sendPhaseCommand(po.currentPhase,
                                                            phase.mode,
                                                            timePerAgent(phase)))]
               /\ IF a = Cardinality(Agents) \/ po.stopCh = "closed"
                  THEN po' = [po EXCEPT !.pc = "wait",
                                        !.wake = phaseClock + phase.duration]
                  ELSE po' = [po EXCEPT
                                 !.nextAgent = a + 1,
                                 !.wake = phaseClock + timePerAgent(phase)]
    /\ UNCHANGED <<phaseClock, agentPhase, phaseComplete>>
    /\ UNCHANGED <<coordVars, agentVars>>
    /\ UNCHANGED lockVars
    /\ UNCHANGED registryVars

\* executeParallelPhase, then executePhases arms the phase timer; the look
\* at stopCh at the head of the loop counts as made here
executeParallelPhase ==
    /\ po.pc = "parallel"
    /\ LET phase == po.phases[po.currentPhase]
       IN IF po.stopCh = "closed"
          THEN /\ po' = [po EXCEPT !.pc = "done"]
               /\ UNCHANGED phaseCommands
          ELSE /\ phaseCommands' =
                      [a \in Agents |->
                          Append(phaseCommands[a],
                                 sendPhaseCommand(po.currentPhase, phase.mode,
                                                  phase.duration))]
               /\ po' = [po EXCEPT !.pc = "wait",
                                   !.wake = phaseClock + phase.duration]
    /\ UNCHANGED <<phaseClock, agentPhase, phaseComplete>>
    /\ UNCHANGED <<coordVars, agentVars>>
    /\ UNCHANGED lockVars
    /\ UNCHANGED registryVars

\* executePhases' select: the phase timer fires
phaseTimeout ==
    /\ po.pc = "wait"
    /\ po.wake <= phaseClock
    /\ po' = [po EXCEPT !.pc = "loop"]
    /\ UNCHANGED <<phaseClock, phaseCommands, agentPhase, phaseComplete>>
    /\ UNCHANGED <<coordVars, agentVars>>
    /\ UNCHANGED lockVars
    /\ UNCHANGED registryVars

\* executePhases' select: stopCh is closed
phaseStopped ==
    /\ po.pc = "wait"
    /\ po.stopCh = "closed"
    /\ po' = [po EXCEPT !.pc = "done"]
    /\ UNCHANGED <<phaseClock, phaseCommands, agentPhase, phaseComplete>>
    /\ UNCHANGED <<coordVars, agentVars>>
    /\ UNCHANGED lockVars
    /\ UNCHANGED registryVars

\* Stop: closes stopCh unless it is closed already
Stop ==
    /\ po.pc # "none"
    /\ po' = [po EXCEPT !.stopCh = "closed"]
    /\ UNCHANGED <<phaseClock, phaseCommands, agentPhase, phaseComplete>>
    /\ UNCHANGED <<coordVars, agentVars>>
    /\ UNCHANGED lockVars
    /\ UNCHANGED registryVars

\* executePhases' select: a value arrives on phaseDoneCh
phaseDone ==
    /\ po.pc = "wait"
    /\ po.phaseDoneCh > 0
    /\ po' = [po EXCEPT !.pc = "loop", !.phaseDoneCh = @ - 1]
    /\ UNCHANGED <<phaseClock, phaseCommands, agentPhase, phaseComplete>>
    /\ UNCHANGED <<coordVars, agentVars>>
    /\ UNCHANGED lockVars
    /\ UNCHANGED registryVars

\* the subscription callback of monitorPhaseCompletion
monitorPhaseCompletion(completion) ==
    /\ completion \in phaseComplete
    /\ phaseComplete' = phaseComplete \ {completion}
    /\ IF completion.phaseIndex = po.currentPhase
       THEN LET done == po.completedAgents \cup {completion.agent}
            IN po' = [po EXCEPT
                         !.completedAgents = done,
                         !.phaseDoneCh =
                             IF Cardinality(done) = Cardinality(Agents)
                                /\ po.phaseDoneCh < 10
                             THEN @ + 1 ELSE @]
       ELSE UNCHANGED po
    /\ UNCHANGED <<phaseClock, phaseCommands, agentPhase>>
    /\ UNCHANGED <<coordVars, agentVars>>
    /\ UNCHANGED lockVars
    /\ UNCHANGED registryVars

\* handleAgentCommand takes START_PHASE: executePhase, and executePhaseLoad
\* up to its select
startPhaseLoad(a) ==
    /\ agentPhase[a].pc = "idle"
    /\ phaseCommands[a] # <<>>
    /\ phaseCommands' = [phaseCommands EXCEPT ![a] = Tail(@)]
    /\ agentPhase' =
           [agentPhase EXCEPT
               ![a] = [pc |-> "load",
                       phase |-> Head(phaseCommands[a]),
                       start |-> phaseClock,
                       deadline |-> phaseClock
                                        + Head(phaseCommands[a]).duration]]
    /\ UNCHANGED <<phaseClock, po, phaseComplete>>
    /\ UNCHANGED <<coordVars, agentVars>>
    /\ UNCHANGED lockVars
    /\ UNCHANGED registryVars

\* executePhaseLoad's phaseTimer fires: close(stopCh), then wg.Wait()
stopPhaseLoad(a) ==
    /\ agentPhase[a].pc = "load"
    /\ agentPhase[a].deadline <= phaseClock
    /\ agentPhase' = [agentPhase EXCEPT ![a].pc = "wait"]
    /\ UNCHANGED <<phaseClock, po, phaseCommands, phaseComplete>>
    /\ UNCHANGED <<coordVars, agentVars>>
    /\ UNCHANGED lockVars
    /\ UNCHANGED registryVars

\* wg.Wait() returns and executePhase publishes the PhaseCompletion
completePhase(a) ==
    /\ agentPhase[a].pc = "wait"
    /\ phaseComplete' =
           phaseComplete
           \cup {[agent |-> a, phaseIndex |-> agentPhase[a].phase.phaseIndex]}
    /\ agentPhase' = [agentPhase EXCEPT ![a] = IdlePhase]
    /\ UNCHANGED <<phaseClock, po, phaseCommands>>
    /\ UNCHANGED <<coordVars, agentVars>>
    /\ UNCHANGED lockVars
    /\ UNCHANGED registryVars

\* a second passes: nothing that is due is left undone
phaseTick ==
    /\ phaseClock < MaxPhaseClock
    /\ po.pc \in {"sequential", "wait", "done"}
    /\ po.pc = "sequential" => po.wake > phaseClock
    /\ po.pc = "wait" => /\ po.wake > phaseClock
                         /\ po.phaseDoneCh = 0
                         /\ po.stopCh = "open"
    /\ phaseComplete = {}
    /\ \A a \in Agents :
          /\ agentPhase[a].pc = "idle" => phaseCommands[a] = <<>>
          /\ agentPhase[a].pc = "load" => agentPhase[a].deadline > phaseClock
          /\ agentPhase[a].pc = "wait"
             => phaseClock < agentPhase[a].deadline + MaxThinkTime
    /\ phaseClock' = phaseClock + 1
    /\ UNCHANGED <<po, phaseCommands, agentPhase, phaseComplete>>
    /\ UNCHANGED <<coordVars, agentVars>>
    /\ UNCHANGED lockVars
    /\ UNCHANGED registryVars

PhaseNext ==
    \/ /\ po.pc = "none"
       /\ \E phases \in OrchestratedPlans : NewPhaseOrchestrator(phases)
    \/ executePhases
    \/ executeSequentialPhase
    \/ executeParallelPhase
    \/ phaseTimeout
    \/ phaseDone
    \/ \E completion \in phaseComplete : monitorPhaseCompletion(completion)
    \/ \E a \in Agents : startPhaseLoad(a)
    \/ \E a \in Agents : stopPhaseLoad(a)
    \/ \E a \in Agents : completePhase(a)
    \/ phaseTick

\* The orchestrator with completeTestRun or the coordinator's shutdown
\* calling Stop on it.
StopPhaseNext ==
    \/ PhaseNext
    \/ po.stopCh = "open" /\ Stop
    \/ phaseStopped

\* ---------------------------------------------------------- c.mu
\* The coordinator's goroutines statement by statement around c.mu.Lock and
\* c.mu.Unlock: the start and stop API handlers, the registration callback,
\* go startTestRun, go stopTestRun and the completion timer. One goroutine
\* of each kind runs at a time.
Tasks ==
    {"handleStartTestRun", "handleStopTestRun", "handleAgentRegistration",
     "startTestRun", "stopTestRun", "completeTestRun"}

\* c.mu held by nobody
Unlocked == "unlocked"

IdleTask == [pc |-> "idle", id |-> Nil]

LockInit ==
    /\ mu = Unlocked
    /\ lockPc = [t \in Tasks |-> IdleTask]

\* what a step of the goroutines leaves alone besides the run state
lockFrame ==
    <<now, testRuns, agentResults, startTasks, stopTasks, completionTimers,
      lastUpdate, internalMsgs, handlerResults>>

\* c.mu.Lock() at the head of a handler; id is the run, or the agent
Lock(t, id) ==
    /\ lockPc[t].pc = "idle"
    /\ mu = Unlocked
    /\ mu' = t
    /\ lockPc' = [lockPc EXCEPT ![t] = [pc |-> "locked", id |-> id]]
    /\ UNCHANGED <<coordVars, agentVars, phaseVars, registryVars>>

\* the deferred c.mu.Unlock()
Unlock(t) ==
    /\ lockPc[t].pc = "unlock"
    /\ mu' = Unlocked
    /\ lockPc' = [lockPc EXCEPT ![t] = IdleTask]
    /\ UNCHANGED <<coordVars, agentVars, phaseVars, registryVars>>

\* go c.startTestRun / go c.stopTestRun / time.AfterFunc
Spawn(pcs, t, id) == [pcs EXCEPT ![t] = [pc |-> "spawned", id |-> id]]

\* handleStartTestRun between Lock and Unlock
lockedStartTestRun ==
    LET t == "handleStartTestRun"
        id == lockPc[t].id
        done == [lockPc EXCEPT ![t].pc = "unlock"]
    IN /\ lockPc[t].pc = "locked"
       /\ IF \/ id \notin testRuns
             \/ Status(id) # TestRunStatusCreated
             \/ AnotherRunActive
          THEN /\ lockPc' = done
               /\ UNCHANGED <<testRunObjs, currentTestRun, database>>
          ELSE /\ testRunObjs' =
                      [testRunObjs EXCEPT ![id] = TestRunStart(@, now)]
               /\ currentTestRun' = id
               /\ database' =
                      SaveTestRun(database, id, TestRunStart(testRunObjs[id], now))
               /\ IF Cardinality(connectedAgents) >= testRunObjs[id].agent_count
                  THEN /\ lockPc["startTestRun"].pc = "idle"
                       /\ lockPc' = Spawn(done, "startTestRun", id)
                  ELSE lockPc' = done
       /\ UNCHANGED <<mu, connectedAgents, phaseOrchestrator, natsCommands>>
       /\ UNCHANGED lockFrame
       /\ UNCHANGED <<agentVars, phaseVars, registryVars>>

\* handleStopTestRun between Lock and Unlock
lockedStopTestRun ==
    LET t == "handleStopTestRun"
        id == lockPc[t].id
        done == [lockPc EXCEPT ![t].pc = "unlock"]
    IN /\ lockPc[t].pc = "locked"
       /\ IF \/ id \notin testRuns
             \/ Status(id) \notin {TestRunStatusRunning, TestRunStatusWaiting}
          THEN lockPc' = done
          ELSE /\ lockPc["stopTestRun"].pc = "idle"
               /\ lockPc' = Spawn(done, "stopTestRun", id)
       /\ UNCHANGED <<mu, testRunObjs, currentTestRun, database,
                      connectedAgents, phaseOrchestrator, natsCommands>>
       /\ UNCHANGED lockFrame
       /\ UNCHANGED <<agentVars, phaseVars, registryVars>>

\* handleAgentRegistration between Lock and Unlock
lockedAgentRegistration ==
    LET t == "handleAgentRegistration"
        a == lockPc[t].id
        done == [lockPc EXCEPT ![t].pc = "unlock"]
    IN /\ lockPc[t].pc = "locked"
       /\ connectedAgents' = connectedAgents \cup {a}
       /\ IF a \notin connectedAgents
             /\ QuorumReached(connectedAgents \cup {a})
          THEN /\ lockPc["startTestRun"].pc = "idle"
               /\ lockPc' = Spawn(done, "startTestRun", currentTestRun)
          ELSE lockPc' = done
       /\ UNCHANGED <<mu, testRunObjs, currentTestRun, database,
                      phaseOrchestrator, natsCommands>>
       /\ UNCHANGED lockFrame
       /\ UNCHANGED <<agentVars, phaseVars>>
       /\ lastSeen' = [lastSeen EXCEPT ![lockPc["handleAgentRegistration"].id] = registryClock]
       /\ registerMsgs' = registerMsgs \ {lockPc["handleAgentRegistration"].id}
       /\ UNCHANGED registryFrame

\* startTestRun's first statement: testRun.MarkRunning()
startMarkRunning ==
    LET t == "startTestRun"
        id == lockPc[t].id
    IN /\ lockPc[t].pc = "spawned"
       /\ testRunObjs' = [testRunObjs EXCEPT ![id] = MarkRunning(@)]
       /\ lockPc' = [lockPc EXCEPT ![t].pc = "broadcast"]
       /\ UNCHANGED <<mu, currentTestRun, database, connectedAgents,
                      phaseOrchestrator, natsCommands>>
       /\ UNCHANGED lockFrame
       /\ UNCHANGED <<agentVars, phaseVars, registryVars>>

\* broadcastTestStart: c.mu.Lock()
startBroadcastLock ==
    LET t == "startTestRun"
    IN /\ lockPc[t].pc = "broadcast"
       /\ mu = Unlocked
       /\ mu' = t
       /\ lockPc' = [lockPc EXCEPT ![t].pc = "locked"]
       /\ UNCHANGED <<coordVars, agentVars, phaseVars, registryVars>>

\* broadcastTestStart up to c.mu.Unlock(): the phase orchestrator is built
\* under the lock when the plan has a sequential phase
startBroadcastUnlock ==
    LET t == "startTestRun"
        id == lockPc[t].id
    IN /\ lockPc[t].pc = "locked"
       /\ mu' = Unlocked
       /\ lockPc' = [lockPc EXCEPT ![t].pc = "publish"]
       /\ phaseOrchestrator' =
              IF hasSequentialPhases(testRunObjs[id].test_plan.ramp_up_strategy)
              THEN id ELSE phaseOrchestrator
       /\ UNCHANGED <<testRunObjs, currentTestRun, database, connectedAgents,
                      natsCommands>>
       /\ UNCHANGED lockFrame
       /\ UNCHANGED <<agentVars, phaseVars, registryVars>>

\* the rest of startTestRun: the START broadcast and the completion timer,
\* or testRun.Fail when the publish fails
startPublish(publishOk) ==
    LET t == "startTestRun"
        id == lockPc[t].id
        done == [lockPc EXCEPT ![t] = IdleTask]
    IN /\ lockPc[t].pc = "publish"
       /\ IF hasSequentialPhases(testRunObjs[id].test_plan.ramp_up_strategy)
          THEN /\ lockPc["completeTestRun"].pc = "idle"
               /\ lockPc' = Spawn(done, "completeTestRun", id)
               /\ UNCHANGED <<testRunObjs, natsCommands>>
          ELSE IF publishOk
          THEN /\ lockPc["completeTestRun"].pc = "idle"
               /\ lockPc' = Spawn(done, "completeTestRun", id)
               /\ natsCommands' =
                      natsCommands
                      \cup {StartCommand(id, testRunObjs[id].test_plan)}
               /\ UNCHANGED testRunObjs
          ELSE /\ lockPc' = done
               /\ testRunObjs' = [testRunObjs EXCEPT ![id] = Fail(@, now)]
               /\ UNCHANGED natsCommands
       /\ UNCHANGED <<mu, currentTestRun, database, connectedAgents,
                      phaseOrchestrator>>
       /\ UNCHANGED lockFrame
       /\ UNCHANGED <<agentVars, phaseVars, registryVars>>

\* go c.stopTestRun: publish STOP, testRun.Status = completing
stopPublish ==
    LET t == "stopTestRun"
        id == lockPc[t].id
    IN /\ lockPc[t].pc = "spawned"
       /\ natsCommands' = natsCommands \cup {StopCommand(id)}
       /\ testRunObjs' =
              [testRunObjs EXCEPT ![id].status = TestRunStatusCompleting]
       /\ lockPc' = [lockPc EXCEPT ![t] = IdleTask]
       /\ UNCHANGED <<mu, currentTestRun, database, connectedAgents,
                      phaseOrchestrator>>
       /\ UNCHANGED lockFrame
       /\ UNCHANGED <<agentVars, phaseVars, registryVars>>

\* completeTestRun: c.mu.Lock()
completeLock ==
    LET t == "completeTestRun"
    IN /\ lockPc[t].pc = "spawned"
       /\ mu = Unlocked
       /\ mu' = t
       /\ lockPc' = [lockPc EXCEPT ![t].pc = "locked"]
       /\ UNCHANGED <<coordVars, agentVars, phaseVars, registryVars>>

\* completeTestRun up to c.mu.Unlock(): the lookup and the orchestrator
completeUnlock ==
    LET t == "completeTestRun"
        id == lockPc[t].id
    IN /\ lockPc[t].pc = "locked"
       /\ mu' = Unlocked
       /\ IF id \notin testRuns
          THEN /\ lockPc' = [lockPc EXCEPT ![t] = IdleTask]
               /\ UNCHANGED phaseOrchestrator
          ELSE /\ lockPc' = [lockPc EXCEPT ![t].pc = "aggregate"]
               /\ phaseOrchestrator' = Nil
       /\ UNCHANGED <<testRunObjs, currentTestRun, database, connectedAgents,
                      natsCommands>>
       /\ UNCHANGED lockFrame
       /\ UNCHANGED <<agentVars, phaseVars, registryVars>>

\* the rest of completeTestRun: the results, testRun.Complete, the database
\* row and the current-run pointer
completeWrite ==
    LET t == "completeTestRun"
        id == lockPc[t].id
        tr == Complete(testRunObjs[id],
                       AggregateResults(testRunObjs[id], agentResults[id]),
                       now)
    IN /\ lockPc[t].pc = "aggregate"
       /\ testRunObjs' = [testRunObjs EXCEPT ![id] = tr]
       /\ database' = SaveTestRun(database, id, tr)
       /\ currentTestRun' = IF currentTestRun = id THEN Nil ELSE currentTestRun
       /\ lockPc' = [lockPc EXCEPT ![t] = IdleTask]
       /\ UNCHANGED <<mu, connectedAgents, phaseOrchestrator, natsCommands>>
       /\ UNCHANGED lockFrame
       /\ UNCHANGED <<agentVars, phaseVars, registryVars>>

LockNext ==
    \/ testRunObjs = <<>> /\ handleCreateTestRun(PlanSimple, MaxMinAgents)
    \/ \E id \in RunIds : Lock("handleStartTestRun", id)
    \/ \E id \in RunIds : Lock("handleStopTestRun", id)
    \/ \E a \in Agents : Lock("handleAgentRegistration", a)
    \/ lockedStartTestRun
    \/ lockedStopTestRun
    \/ lockedAgentRegistration
    \/ \E t \in Tasks : Unlock(t)
    \/ startMarkRunning
    \/ startBroadcastLock
    \/ startBroadcastUnlock
    \/ \E publishOk \in BOOLEAN : startPublish(publishOk)
    \/ stopPublish
    \/ completeLock
    \/ completeUnlock
    \/ completeWrite

\* No agent has started; the janitor's ticker is armed.
RegistryInit ==
    /\ lastSeen = [a \in Agents |-> Nil]
    /\ registerMsgs = {}
    /\ heartbeatMsgs = {}
    /\ heartbeatTicker = [a \in Agents |-> Nil]
    /\ registryClock = 1
    /\ cleanupTicker = 1 + CleanupInterval
    /\ lostHeartbeats = 0

Init == CoordinatorInit /\ AgentInit /\ PhaseInit /\ LockInit /\ RegistryInit

LockSpec == Init /\ [][LockNext]_vars

PhaseSpec == Init /\ [][PhaseNext]_vars

LimiterSpec == Init /\ [][LimiterNext]_vars

StopPhaseSpec == Init /\ [][StopPhaseNext]_vars

Next == Lifecycle

Spec == Init /\ [][Next]_vars

\* One run from creation to finalisation, with the agents' telemetry.
TelemetryNext ==
    \/ Tick
    \/ testRunObjs = <<>> /\ handleCreateTestRun(PlanSimple, 0)
    \/ \E id \in RunIds : handleStartTestRun(id)
    \/ \E id \in RunIds : startTestRun(id, TRUE)
    \/ \E id \in RunIds : completeTestRun(id)
    \/ \E a \in Agents : handleAgentRegistration(a)
    \/ \E a \in Agents, snap \in Snapshots : telemetrySubscriber(a, snap)
    \/ processTelemetryUpdate

TelemetrySpec == Init /\ [][TelemetryNext]_vars

\* The same, with the coordinator process restarting on its database.
RecoveryNext == TelemetryNext \/ Restart

RecoverySpec == Init /\ [][RecoveryNext]_vars

\* The agent alone, with the commands a coordinator may send it.
AgentNext ==
    \/ \E command \in TestCommands : subscribeTestCommand(command)
    \/ \E command \in AgentCommands : subscribeAgentCommand(command)
    \/ handleTestCommand
    \/ planTimer
    \/ \E gotResponse \in BOOLEAN : worker(gotResponse)
    \/ executeTestPlan
    \/ handleAgentCommand
    \/ \E byTimer \in BOOLEAN : executePhaseLoad(byTimer)
    \/ \E gotResponse \in BOOLEAN : phaseWorker(gotResponse)
    \/ executePhase
    \/ reportMetrics

\* Callbacks and goroutines that can take a step get to take it. The two
\* duration timers carry no fairness: a plan's duration is as long as the
\* plan says.
AgentFairness ==
    /\ WF_vars(handleTestCommand)
    /\ WF_vars(handleAgentCommand)
    /\ WF_vars(executeTestPlan)
    /\ WF_vars(executePhaseLoad(FALSE))
    /\ WF_vars(executePhase)
    /\ WF_vars(planStopCh = "closed" /\ worker(TRUE))
    /\ WF_vars(phaseWorkersStopCh = "closed" /\ phaseWorker(TRUE))

AgentSpec ==
    Init /\ [][AgentNext]_vars /\ AgentFairness

\* A run stopped through the API, with the agent receiving the commands the
\* coordinator published and the phase commands of an orchestrator.
\* executeTestPlan's ramp-up initialisation on an agent of the given
\* concurrency
startRampUp(strategy, maxConcurrency) ==
    /\ rampUpCalculator = <<>>
    /\ LET calc == NewRampUpCalculator(strategy, maxConcurrency)
       IN /\ rampUpCalculator' = <<calc>>
          /\ rampUpExecution' = <<Start(calc)>>
    /\ UNCHANGED <<testCommandMsgs, agentCommandMsgs, testCallback,
                   agentCallback, running, testCompleted, currentTestRunID,
                   currentPlan, planStopCh, planWorkers, phaseStopCh,
                   phaseWorkersStopCh, phaseWorkers, planTestRunID,
                   phaseTestRunID, rampUpQuery, metrics, telemetry,
                   executionUpdate, phaseCompletions>>
    /\ UNCHANGED rateLimiter
    /\ UNCHANGED coordVars
    /\ UNCHANGED phaseVars
    /\ UNCHANGED lockVars
    /\ UNCHANGED registryVars

\* one tick of rampUpController, `elapsed` seconds after Start
rampUpController(elapsed) ==
    /\ rampUpCalculator # <<>>
    /\ rampUpExecution # <<>>
    /\ rampUpQuery # <<>> => elapsed > rampUpQuery[1].elapsed
    /\ rampUpQuery' =
           <<[elapsed |-> elapsed,
              targetConcurrency |->
                  GetCurrentConcurrency(rampUpCalculator[1], elapsed)]>>
    /\ rampUpExecution' =
           <<ExecutionAfter(rampUpCalculator[1], rampUpExecution[1], elapsed)>>
    /\ UNCHANGED <<testCommandMsgs, agentCommandMsgs, testCallback,
                   agentCallback, running, testCompleted, currentTestRunID,
                   currentPlan, planStopCh, planWorkers, phaseStopCh,
                   phaseWorkersStopCh, phaseWorkers, planTestRunID,
                   phaseTestRunID, rampUpCalculator, metrics, telemetry,
                   executionUpdate, phaseCompletions>>
    /\ UNCHANGED rateLimiter
    /\ UNCHANGED coordVars
    /\ UNCHANGED phaseVars
    /\ UNCHANGED lockVars
    /\ UNCHANGED registryVars

\* worker's throttle test: the goroutine workerID exists and its index is
\* below the calculator's target at the time of the test
IssuesRequest(workerID, elapsed) ==
    /\ workerID < planWorkers
    /\ rampUpCalculator # <<>> /\ rampUpExecution # <<>>
       => ~(workerID >= GetCurrentConcurrency(rampUpCalculator[1], elapsed))

\* A worker of executeTestPlan takes an endpoint `elapsed` seconds after the
\* ramp-up started: it issues the request, or sleeps when throttled
rampWorker(workerID, elapsed) ==
    /\ workerID < planWorkers
    /\ planStopCh = "open"
    /\ rampUpCalculator # <<>>
    /\ rampUpExecution # <<>>
    /\ rampUpQuery # <<>> => elapsed >= rampUpQuery[1].elapsed
    /\ rampUpQuery' =
           <<[elapsed |-> elapsed,
              targetConcurrency |->
                  GetCurrentConcurrency(rampUpCalculator[1], elapsed)]>>
    /\ rampUpExecution' =
           <<ExecutionAfter(rampUpCalculator[1], rampUpExecution[1], elapsed)>>
    /\ IF IssuesRequest(workerID, elapsed)
       THEN executeRequest(TRUE)
       ELSE UNCHANGED metrics
    /\ UNCHANGED <<testCommandMsgs, agentCommandMsgs, testCallback,
                   agentCallback, running, testCompleted, currentTestRunID,
                   currentPlan, planStopCh, planWorkers, phaseStopCh,
                   phaseWorkersStopCh, phaseWorkers, planTestRunID,
                   phaseTestRunID, rampUpCalculator, telemetry,
                   executionUpdate, phaseCompletions>>
    /\ UNCHANGED rateLimiter
    /\ UNCHANGED coordVars
    /\ UNCHANGED phaseVars
    /\ UNCHANGED lockVars
    /\ UNCHANGED registryVars

\* plans of each strategy kind, as a START carries them
LoadStrategies ==
    {NoStrategy,
     CreateLinearRampUp(10),
     [type |-> RampUpTypeStep, duration |-> 10,
      phases |-> <<[duration |-> 1, concurrency |-> 1, mode |-> "parallel"],
                   [duration |-> 1, concurrency |-> 2, mode |-> "parallel"]>>],
     CreateCustomRampUp(10, <<[duration |-> 1, concurrency |-> 1,
                               mode |-> "parallel"]>>)}

LoadCommands ==
    {StartCommand(1, [endpoints |-> 1, ramp_up_strategy |-> strategy]) :
        strategy \in LoadStrategies}

\* One agent executing START commands: the worker pool with its throttle,
\* the ramp-up controller while stopCh is open, and the duration timer.
LoadNext ==
    \/ \E command \in LoadCommands : subscribeTestCommand(command)
    \/ handleTestCommand
    \/ \E workerID \in 0..(Concurrency - 1), elapsed \in 0..MaxElapsed :
          rampWorker(workerID, elapsed)
    \/ /\ planStopCh = "open"
       /\ \E elapsed \in 0..MaxElapsed : rampUpController(elapsed)
    \/ planTimer
    \/ planStopCh = "closed" /\ worker(TRUE)
    \/ executeTestPlan

LoadSpec == Init /\ [][LoadNext]_vars

\* create requests the API can receive beyond those of CreateRequests: plans
\* that carry a duration string, strategies of every kind, and any min_agents
\* an int field decodes
PlanDurations == {"60s", "soon"}

\* time.ParseDuration succeeds
ParseDuration(duration) == duration = "60s"

RequestStrategies ==
    {NoStrategy, CreateDefaultRampUp,
     [type |-> "exponential", duration |-> 10, phases |-> <<>>],
     CreateCustomRampUp(10, <<>>),
     CreateCustomRampUp(10, <<[duration |-> 1, concurrency |-> -1,
                               mode |-> "parallel"]>>),
     CreateCustomRampUp(10, <<[duration |-> 1, concurrency |-> 1,
                               mode |-> "burst"]>>)}

RequestPlans ==
    [endpoints : {0, 1}, duration : PlanDurations,
     ramp_up_strategy : RequestStrategies]

AnyCreateRequests ==
    [test_plan : RequestPlans, min_agents : -1..MaxMinAgents]

CreateNext ==
    \E req \in AnyCreateRequests :
        handleCreateTestRun(req.test_plan, req.min_agents)

CreateSpec == Init /\ [][CreateNext]_vars

RampNext ==
    \/ /\ rampUpCalculator = <<>>
       /\ \E strategy \in Strategies, maxConcurrency \in MaxConcurrencies :
             startRampUp(strategy, maxConcurrency)
    \/ \E elapsed \in 0..MaxElapsed : rampUpController(elapsed)

RampSpec == Init /\ [][RampNext]_vars

\* Starting a run: create, registrations, start and rerun requests, the start
\* goroutines and the completion timers, with room for two goroutines and
\* two timers of one run.
StartNext ==
    \/ \E req \in CreateRequests :
          handleCreateTestRun(req.test_plan, req.min_agents)
    \/ \E a \in Agents : handleAgentRegistrationWithin(a, MaxStartTasks)
    \/ \E id \in RunIds : handleStartTestRunWithin(id, MaxStartTasks)
    \/ \E id \in RunIds : handleRerunTestRun(id)
    \/ \E id \in RunIds : startTestRunWithin(id, TRUE, MaxStartTasks)
    \/ \E id \in RunIds : completeTestRun(id)

StartSpec == Init /\ [][StartNext]_vars

StopNext ==
    \/ testRunObjs = <<>> /\ handleCreateTestRun(PlanSimple, 0)
    \/ \E a \in Agents : handleAgentRegistration(a)
    \/ \E id \in RunIds : handleStartTestRun(id)
    \/ \E id \in RunIds : startTestRun(id, TRUE)
    \/ \E id \in RunIds : handleStopTestRun(id)
    \/ \E id \in RunIds : stopTestRun(id)
    \/ \E id \in RunIds : completeTestRun(id)
    \/ \E command \in natsCommands : subscribeTestCommand(command)
    \/ \E command \in AgentCommands : subscribeAgentCommand(command)
    \/ handleTestCommand
    \/ planTimer
    \/ worker(TRUE)
    \/ executeTestPlan
    \/ handleAgentCommand
    \/ \E byTimer \in BOOLEAN : executePhaseLoad(byTimer)
    \/ phaseWorker(TRUE)
    \/ executePhase

StopSpec == Init /\ [][StopNext]_vars

\* The agent process of the agent model, as the coordinator knows it.
LocalAgent == CHOOSE a \in Agents : TRUE

\* A published START reaches the agent's armonite.test.command subscription:
\* once, and in the order the runs were started.
deliverTestCommand(command) ==
    /\ command.command = "START"
    /\ command.test_run_id > currentTestRunID
    /\ \A i \in 1..Len(testCommandMsgs) : testCommandMsgs[i] # command
    /\ subscribeTestCommand(command)

\* The agent's last armonite.telemetry publication reaches the coordinator's
\* telemetry subscriber while it still is what the agent would publish.
deliverTelemetry ==
    /\ telemetry # <<>>
    /\ telemetry[1].requests = metrics.Requests
    /\ telemetry[1].errors = metrics.Errors
    /\ telemetrySubscriber(LocalAgent,
                           [requests |-> telemetry[1].requests,
                            errors |-> telemetry[1].errors])

\* Runs one after the other on a coordinator with one agent process that
\* executes their plans and reports its metrics.
ResultNext ==
    \/ Tick
    \/ handleCreateTestRun(PlanSimple, 0)
    \/ handleAgentRegistration(LocalAgent)
    \/ \E id \in RunIds : handleStartTestRun(id)
    \/ \E id \in RunIds : startTestRun(id, TRUE)
    \/ \E id \in RunIds : completeTestRun(id)
    \/ \E command \in natsCommands : deliverTestCommand(command)
    \/ handleTestCommand
    \/ planTimer
    \/ worker(TRUE)
    \/ executeTestPlan
    \/ reportMetrics
    \/ deliverTelemetry
    \/ processTelemetryUpdate

ResultSpec == Init /\ [][ResultNext]_vars

\* a plan with sequential phases against another endpoint list
PlanOrchestrated == [PlanSequential EXCEPT !.endpoints = 2]

\* A START_PHASE of the live orchestrator reaches the agent's
\* armonite.agent.<id>.command subscription (sendPhaseCommand: the command
\* carries the orchestrator's run id and the phase, no plan).
deliverPhaseCommand ==
    /\ phaseOrchestrator # Nil
    /\ LocalAgent \in connectedAgents
    /\ subscribeAgentCommand([command |-> "START_PHASE",
                              test_run_id |-> phaseOrchestrator])

\* Runs with and without phase orchestration, one after the other, on a
\* coordinator with one agent process.
OrchestratedNext ==
    \/ \E testPlan \in {PlanSimple, PlanOrchestrated} :
          handleCreateTestRun(testPlan, 0)
    \/ handleAgentRegistration(LocalAgent)
    \/ \E id \in RunIds : handleStartTestRun(id)
    \/ \E id \in RunIds : startTestRun(id, TRUE)
    \/ \E id \in RunIds : completeTestRun(id)
    \/ \E command \in natsCommands : deliverTestCommand(command)
    \/ handleTestCommand
    \/ planTimer
    \/ worker(TRUE)
    \/ executeTestPlan
    \/ deliverPhaseCommand
    \/ handleAgentCommand
    \/ executePhaseLoad(TRUE)
    \/ phaseWorker(TRUE)
    \/ executePhase

OrchestratedSpec == Init /\ [][OrchestratedNext]_vars

\* START commands whose plan has no strategy, or a custom one with a phase
\* of more workers than the agent's concurrency
PoolCommands ==
    {StartCommand(1, [endpoints |-> 1, ramp_up_strategy |-> strategy]) :
        strategy \in
            {NoStrategy,
             CreateCustomRampUp(10, <<[duration |-> 1,
                                       concurrency |-> Concurrency + 1,
                                       mode |-> "parallel"]>>)}}

\* One agent and its two worker pools, under START and START_PHASE.
PoolNext ==
    \/ \E command \in PoolCommands : subscribeTestCommand(command)
    \/ \E id \in RunIds :
          subscribeAgentCommand([command |-> "START_PHASE",
                                 test_run_id |-> id])
    \/ handleTestCommand
    \/ \E workerID \in 0..Concurrency : rampWorker(workerID, 0)
    \/ planTimer
    \/ planStopCh = "closed" /\ worker(TRUE)
    \/ executeTestPlan
    \/ handleAgentCommand
    \/ executePhaseLoad(TRUE)
    \/ phaseWorker(TRUE)
    \/ executePhase

PoolSpec == Init /\ [][PoolNext]_vars

\* --------------------------------------------------- heartbeats, janitor
registryCoordFrame ==
    <<testRunObjs, testRuns, currentTestRun, agentResults, phaseOrchestrator,
      startTasks, stopTasks, completionTimers, natsCommands, lastUpdate,
      internalMsgs, handlerResults, database>>

\* runAgent: registerWithCoordinator publishes the one "register" of the
\* agent's life, startHeartbeat arms the ticker
registerWithCoordinator(a) ==
    /\ heartbeatTicker[a] = Nil
    /\ registerMsgs' = registerMsgs \cup {a}
    /\ heartbeatTicker' = [heartbeatTicker EXCEPT ![a] = NextTick(HeartbeatInterval)]
    /\ UNCHANGED <<lastSeen, heartbeatMsgs, cleanupTicker, registryClock,
                   lostHeartbeats>>
    /\ UNCHANGED <<coordVars, agentVars, phaseVars, lockVars>>

\* The armonite.agent.register subscriber receives an agent's "register".
deliverRegistration(a) ==
    /\ a \in registerMsgs
    /\ handleAgentRegistration(a)

\* The heartbeat ticker fires: sendHeartbeat
sendHeartbeat(a) ==
    /\ heartbeatTicker[a] # Nil
    /\ registryClock >= heartbeatTicker[a]
    /\ a \notin heartbeatMsgs
    /\ heartbeatMsgs' = heartbeatMsgs \cup {a}
    /\ heartbeatTicker' = [heartbeatTicker EXCEPT ![a] = NextTick(HeartbeatInterval)]
    /\ UNCHANGED <<lastSeen, registerMsgs, cleanupTicker, registryClock,
                   lostHeartbeats>>
    /\ UNCHANGED <<coordVars, agentVars, phaseVars, lockVars>>

\* The armonite.agent.heartbeat subscriber: handleAgentHeartbeat
handleAgentHeartbeat(a) ==
    /\ a \in heartbeatMsgs
    /\ heartbeatMsgs' = heartbeatMsgs \ {a}
    /\ lastSeen' =
           IF a \in connectedAgents
           THEN [lastSeen EXCEPT ![a] = registryClock] ELSE lastSeen
    /\ UNCHANGED <<registerMsgs, heartbeatTicker, cleanupTicker, registryClock,
                   lostHeartbeats>>
    /\ UNCHANGED coordVars
    /\ UNCHANGED <<agentVars, phaseVars, lockVars>>

\* A published heartbeat that no subscriber receives (core NATS delivers
\* at most once).
loseHeartbeat(a) ==
    /\ a \in heartbeatMsgs
    /\ lostHeartbeats < MaxLostHeartbeats
    /\ heartbeatMsgs' = heartbeatMsgs \ {a}
    /\ lostHeartbeats' = lostHeartbeats + 1
    /\ UNCHANGED <<lastSeen, registerMsgs, heartbeatTicker, cleanupTicker,
                   registryClock>>
    /\ UNCHANGED <<coordVars, agentVars, phaseVars, lockVars>>

Stale(a) == registryClock - lastSeen[a] > StaleThreshold

\* startAgentCleanup's ticker fires: cleanupStaleAgents
cleanupStaleAgents ==
    /\ registryClock >= cleanupTicker
    /\ cleanupTicker' = NextTick(CleanupInterval)
    /\ connectedAgents' = {a \in connectedAgents : ~Stale(a)}
    /\ lastSeen' =
           [a \in Agents |->
               IF a \in connectedAgents /\ Stale(a) THEN Nil ELSE lastSeen[a]]
    /\ UNCHANGED <<registerMsgs, heartbeatMsgs, heartbeatTicker, registryClock,
                   lostHeartbeats>>
    /\ UNCHANGED <<now, registryCoordFrame>>
    /\ UNCHANGED <<agentVars, phaseVars, lockVars>>

\* A second passes: nothing is pending on a subject and no ticker is due.
registryTick ==
    /\ registryClock < MaxRegistryTime
    /\ registerMsgs = {} /\ heartbeatMsgs = {}
    /\ registryClock < cleanupTicker
    /\ \A a \in Agents :
           heartbeatTicker[a] # Nil => registryClock < heartbeatTicker[a]
    /\ registryClock' = registryClock + 1
    /\ UNCHANGED <<lastSeen, registerMsgs, heartbeatMsgs, heartbeatTicker,
                   cleanupTicker, lostHeartbeats>>
    /\ UNCHANGED <<coordVars, agentVars, phaseVars, lockVars>>

\* A coordinator and its agents, from the agents' start on: registration,
\* heartbeats every 30 s, the janitor every 30 s.
RegistryNext ==
    \/ registryTick
    \/ \E a \in Agents : registerWithCoordinator(a)
    \/ \E a \in Agents : deliverRegistration(a)
    \/ \E a \in Agents : sendHeartbeat(a)
    \/ \E a \in Agents : handleAgentHeartbeat(a)
    \/ \E a \in Agents : loseHeartbeat(a)
    \/ cleanupStaleAgents

RegistrySpec == Init /\ [][RegistryNext]_vars

\* The tickers fire, the subscribers run, time passes.
RegistryFairness ==
    /\ WF_vars(registryTick)
    /\ WF_vars(cleanupStaleAgents)
    /\ \A a \in Agents :
        /\ WF_vars(deliverRegistration(a))
        /\ WF_vars(sendHeartbeat(a))
        /\ WF_vars(handleAgentHeartbeat(a))

RegistryLiveSpec == RegistrySpec /\ RegistryFairness


\* ================================================================ claims
NonTerminal ==
    {TestRunStatusCreated, TestRunStatusWaiting, TestRunStatusRunning,
     TestRunStatusCompleting}

Terminal ==
    {TestRunStatusCompleted, TestRunStatusFailed, TestRunStatusCancelled}

Allocated == DOMAIN testRunObjs

\* C1: at most one test run has a non-terminal status (created,
\* waiting_for_agents, running or completing) in any reachable state.
C1_AtMostOneNonTerminal ==
    Cardinality({id \in testRuns : Status(id) \in NonTerminal}) <= 1

\* C2: a start request for run R is accepted (R leaves created) only when no
\* other run is waiting_for_agents, running or completing; a rejected request
\* changes nothing.
C2_StartOnlyWhenNoOtherActive ==
    [][\A id \in Allocated :
          (Status(id) = TestRunStatusCreated
             /\ testRunObjs'[id].status # TestRunStatusCreated)
          => ~ \E other \in testRuns \ {id} :
                   Status(other) \in {TestRunStatusWaiting, TestRunStatusRunning,
                                      TestRunStatusCompleting}]_vars

Rank(st) ==
    CASE st = TestRunStatusCreated -> 0
      [] st = TestRunStatusWaiting -> 1
      [] st = TestRunStatusRunning -> 2
      [] st = TestRunStatusCompleting -> 3
      [] OTHER -> 4

\* C3: a run's status only moves forward along created -> waiting_for_agents
\* -> running -> completing -> {completed, failed, cancelled}; it never moves
\* backward and a terminal status never changes again.
C3_StatusMonotonic ==
    [][\A id \in Allocated :
          /\ Rank(testRunObjs'[id].status) >= Rank(Status(id))
          /\ Status(id) \in Terminal => testRunObjs'[id].status = Status(id)]_vars

\* C4: no run stays in completing forever: a run in completing always has a
\* completion timer (or a start task that will arm one) to drive it to
\* completed. Without either, no step of the coordinator writes its status
\* again.
C4_CompletingIsDriven ==
    \A id \in Allocated :
        Status(id) = TestRunStatusCompleting
        => completionTimers[id] > 0 \/ startTasks[id] > 0

StartPublished(id) ==
    StartCommand(id, testRunObjs[id].test_plan) \in natsCommands

NewAgentStep ==
    \E a \in Agents \ connectedAgents : connectedAgents' = connectedAgents \cup {a}

\* a step in which one pending startTestRun(id) task runs
StartTaskStep(id) == startTasks'[id] = startTasks[id] - 1

\* a step in which one pending stopTestRun(id) task runs
StopTaskStep(id) == stopTasks'[id] = stopTasks[id] - 1

C5_RegistrationStep ==
    NewAgentStep
    => /\ testRunObjs' = testRunObjs
       /\ natsCommands' = natsCommands
       /\ IF /\ currentTestRun # Nil
             /\ Status(currentTestRun) = TestRunStatusWaiting
             /\ Cardinality(connectedAgents')
                    >= testRunObjs[currentTestRun].agent_count
          THEN startTasks' =
                   [startTasks EXCEPT ![currentTestRun] = startTasks[currentTestRun] + 1]
          ELSE startTasks' = startTasks

C5_StartTaskStep ==
    \A id \in Allocated :
        StartTaskStep(id)
        => LET plan == testRunObjs[id].test_plan
           IN IF hasSequentialPhases(plan.ramp_up_strategy)
              THEN /\ testRunObjs'[id].status = TestRunStatusRunning
                   /\ phaseOrchestrator' = id
                   /\ natsCommands' = natsCommands
              ELSE \/ /\ testRunObjs'[id].status = TestRunStatusRunning
                      /\ natsCommands' = natsCommands \cup {StartCommand(id, plan)}
                   \/ /\ testRunObjs'[id].status = TestRunStatusFailed
                      /\ natsCommands' = natsCommands

C5_StartOnlyByTask ==
    \A id \in Allocated :
        /\ (StartCommand(id, testRunObjs[id].test_plan) \in natsCommands'
              /\ ~StartPublished(id))
           => StartTaskStep(id)
        /\ (Status(id) = TestRunStatusWaiting
              /\ testRunObjs'[id].status # TestRunStatusWaiting)
           => \/ StartTaskStep(id)
              \/ /\ StopTaskStep(id)
                 /\ testRunObjs'[id].status = TestRunStatusCompleting

Results(id) == testRunObjs[id].results[1]

\* C6: a finalised run's results are built from the aggregator's per-agent
\* rollups for that run: agent_results lists exactly those rollups and
\* total_requests / total_errors are their sums.
C6_ResultsFromRollups ==
    \A id \in Allocated :
        Status(id) = TestRunStatusCompleted
        => /\ Results(id).agent_results = handlerResults[id]
           /\ Results(id).total_requests = SumField(handlerResults[id], "requests")
           /\ Results(id).total_errors = SumField(handlerResults[id], "errors")

\* C7: for every finalised run, requests_per_sec equals total_requests divided
\* by the seconds between started_at and completed_at.
C7_RequestsPerSec ==
    \A id \in Allocated :
        (Status(id) = TestRunStatusCompleted
           /\ testRunObjs[id].completed_at - testRunObjs[id].started_at > 0)
        => Results(id).requests_per_sec.num
               * (testRunObjs[id].completed_at - testRunObjs[id].started_at)
           = Results(id).total_requests * Results(id).requests_per_sec.den

\* C8: every telemetry snapshot the agent publishes has errors <= requests,
\* and its status_codes counts sum to at least requests - errors.
C8_SnapshotCounts ==
    \A i \in 1..Len(telemetry) :
        /\ telemetry[i].errors <= telemetry[i].requests
        /\ telemetry[i].status_codes
               >= telemetry[i].requests - telemetry[i].errors

\* C9: every terminal run has completed_at set and started_at <= completed_at;
\* started_at is set exactly on the transition out of created and never
\* changes afterwards.
C9_TerminalStamped ==
    \A id \in Allocated :
        Status(id) \in Terminal
        => /\ testRunObjs[id].completed_at # Nil
           /\ testRunObjs[id].started_at # Nil
           /\ testRunObjs[id].started_at <= testRunObjs[id].completed_at

C9_StartedAtStep ==
    /\ \A id \in Allocated :
          /\ testRunObjs'[id].started_at # testRunObjs[id].started_at
             => /\ Status(id) = TestRunStatusCreated
                /\ testRunObjs'[id].status # TestRunStatusCreated
                /\ testRunObjs[id].started_at = Nil
          /\ (Status(id) = TestRunStatusCreated
                /\ testRunObjs'[id].status # TestRunStatusCreated)
             => testRunObjs'[id].started_at = now
          /\ Status(id) = TestRunStatusCreated
             => testRunObjs[id].started_at = Nil
    /\ \A id \in DOMAIN testRunObjs' \ Allocated :
          (testRunObjs'[id].status = TestRunStatusCreated)
             <=> (testRunObjs'[id].started_at = Nil)

C9_Timestamps == []C9_TerminalStamped /\ [][C9_StartedAtStep]_vars

C9_Witness ==
    \E id \in Allocated :
        /\ Status(id) = TestRunStatusCompleted
        /\ testRunObjs[id].started_at # Nil
        /\ testRunObjs[id].started_at < testRunObjs[id].completed_at

\* the agent is executing a run: a callback is inside executeTestPlan or
\* executePhaseLoad
Executing ==
    testCallback = "executeTestPlan" \/ agentCallback = "executePhaseLoad"

\* a STOP for the current run, or without a run id, has reached the agent
StopReceived ==
    \E i \in 1..Len(testCommandMsgs) :
        /\ testCommandMsgs[i].command = "STOP"
        /\ testCommandMsgs[i].test_run_id \in {Nil, currentTestRunID}

PlanPoolActive == planWorkers > 0 /\ planStopCh = "open"

\* the START_PHASE-driven pool is live and its generator feeds it requests
PhasePoolActive ==
    phaseWorkers > 0 /\ phaseWorkersStopCh = "open" /\ currentPlan # <<>>

\* C11: an agent generates load for at most one run at a time: its plan
\* worker pool and its phase worker pool are never active together for two
\* different runs.
C11_LoadForOneRun ==
    (PlanPoolActive /\ PhasePoolActive) => planTestRunID = phaseTestRunID

\* C12: a delete request for a run in a non-terminal status is rejected: the
\* run stays in the run table and its database row stays in place.
C12_DeleteOnlyTerminal ==
    [][\A id \in testRuns :
          Status(id) \in NonTerminal
          => /\ id \in testRuns'
             /\ id \in DOMAIN database.test_runs
                => id \in DOMAIN database'.test_runs]_vars

\* a step in which the agent handles a STOP for its current run, or one
\* without a run id
AgentStopStep ==
    /\ testCallback = "idle"
    /\ testCommandMsgs # <<>>
    /\ Head(testCommandMsgs).command = "STOP"
    /\ Head(testCommandMsgs).test_run_id \in {Nil, currentTestRunID}
    /\ testCommandMsgs' = Tail(testCommandMsgs)

\* the agent state a handled STOP leaves behind
Stopped == ~running /\ testCompleted /\ phaseStopCh # "open"

C13_AgentStep ==
    AgentStopStep
    => /\ Stopped'
       /\ Stopped
          => UNCHANGED <<running, testCompleted, phaseStopCh, metrics,
                         currentTestRunID, currentPlan, planStopCh,
                         planWorkers, phaseWorkersStopCh, phaseWorkers,
                         testCallback, agentCallback>>

C13_CoordinatorStep ==
    \A id \in Allocated :
        /\ StopTaskStep(id)
           => /\ testRunObjs'[id].status = TestRunStatusCompleting
              /\ Status(id) = TestRunStatusCompleting
                 => UNCHANGED <<testRunObjs, testRuns, currentTestRun>>
        /\ Status(id) = TestRunStatusCompleting
           => stopTasks'[id] <= stopTasks[id]

ForeignStopStep ==
    /\ testCallback = "idle"
    /\ testCommandMsgs # <<>>
    /\ Head(testCommandMsgs).command = "STOP"
    /\ Head(testCommandMsgs).test_run_id \notin {Nil, currentTestRunID}
    /\ testCommandMsgs' = Tail(testCommandMsgs)

\* a step in which the agent handles a START_PHASE or STOP_PHASE whose run id
\* is not its current one
ForeignPhaseCommandStep ==
    /\ agentCallback = "idle"
    /\ agentCommandMsgs # <<>>
    /\ Head(agentCommandMsgs).test_run_id # currentTestRunID
    /\ agentCommandMsgs' = Tail(agentCommandMsgs)

\* C14: a STOP, START_PHASE or STOP_PHASE whose test_run_id differs from the
\* agent's current run id is ignored: handling it changes no agent state,
\* starts or stops no workers and publishes nothing.
C14_ForeignCommandIgnored ==
    [][(ForeignStopStep \/ ForeignPhaseCommandStep)
       => UNCHANGED <<testCallback, agentCallback, running, testCompleted,
                      currentTestRunID, currentPlan, planStopCh, planWorkers,
                      phaseStopCh, phaseWorkersStopCh, phaseWorkers, metrics,
                      telemetry, executionUpdate, phaseCompletions>>]_vars

\* C15: for every strategy that passes ValidateRampUpStrategy and every
\* max_concurrency >= 0, the target the calculator returns at any elapsed
\* time lies between 0 and max_concurrency.
C15_TargetWithinMax ==
    (/\ rampUpQuery # <<>>
     /\ ValidateRampUpStrategy(rampUpCalculator[1].strategy)
     /\ rampUpCalculator[1].maxConcurrency >= 0)
    => /\ 0 <= rampUpQuery[1].targetConcurrency
       /\ rampUpQuery[1].targetConcurrency
              <= rampUpCalculator[1].maxConcurrency

\* C16: for a linear strategy with ramp duration D > 0, the target at elapsed
\* time t is floor(max_concurrency * min(1, t / D)): 0 at t = 0 and
\* max_concurrency from t = D on.
C16_LinearTarget ==
    (/\ rampUpQuery # <<>>
     /\ rampUpCalculator[1].strategy.type = RampUpTypeLinear
     /\ rampUpCalculator[1].duration > 0)
    => LET max == rampUpCalculator[1].maxConcurrency
           D == rampUpCalculator[1].duration
           t == rampUpQuery[1].elapsed
       IN rampUpQuery[1].targetConcurrency =
              IF t >= D THEN max ELSE (max * t) \div D

\* the end boundary of phase i: the sum of the durations of phases 1..i
RECURSIVE PhaseEnd(_, _)
PhaseEnd(phases, i) ==
    IF i = 0 THEN 0 ELSE PhaseEnd(phases, i - 1) + phases[i].duration

PhaseBased ==
    /\ rampUpQuery # <<>>
    /\ rampUpCalculator[1].strategy.type \in {RampUpTypeStep, RampUpTypeCustom}

\* C17 as stated: at an elapsed time equal to the end boundary of phase i,
\* with a phase i+1 present, the calculator returns phase i+1's concurrency.
C17_RightContinuous ==
    PhaseBased =>
        LET phases == rampUpCalculator[1].strategy.phases
        IN \A i \in 1..(Len(phases) - 1) :
              rampUpQuery[1].elapsed = PhaseEnd(phases, i)
              => rampUpQuery[1].targetConcurrency = phases[i + 1].concurrency

\* C17: at an elapsed time equal to the end boundary of phase i the
\* calculator returns the concurrency of the first phase that ends at that
\* time, which is phase i itself when its duration is positive; phase i+1
\* applies only after the boundary (the target is left-continuous).
C17_LeftContinuous ==
    PhaseBased =>
        LET phases == rampUpCalculator[1].strategy.phases
            t == rampUpQuery[1].elapsed
        IN \A i \in 1..Len(phases) :
              t = PhaseEnd(phases, i)
              => /\ \E j \in 1..i :
                       /\ PhaseEnd(phases, j) = t
                       /\ \A k \in 1..(j - 1) : PhaseEnd(phases, k) < t
                       /\ rampUpQuery[1].targetConcurrency
                              = phases[j].concurrency
                 /\ phases[i].duration > 0
                    => rampUpQuery[1].targetConcurrency
                           = phases[i].concurrency

\* a query exactly at the end of a first phase of positive duration whose
\* successor has another concurrency
C17_Witness ==
    /\ PhaseBased
    /\ Len(rampUpCalculator[1].strategy.phases) = 2
    /\ rampUpCalculator[1].strategy.phases[1].duration > 0
    /\ rampUpCalculator[1].strategy.phases[1].concurrency
           # rampUpCalculator[1].strategy.phases[2].concurrency
    /\ rampUpQuery[1].elapsed
           = PhaseEnd(rampUpCalculator[1].strategy.phases, 1)
    /\ rampUpQuery[1].targetConcurrency
           = rampUpCalculator[1].strategy.phases[1].concurrency

\* the phases whose end boundary has not passed at elapsed time t
PhasesOpenAt(phases, t) ==
    {i \in 1..Len(phases) :
        t <= PhaseEnd(phases, i - 1) + phases[i].duration}

\* C18: for the custom strategy the target at elapsed time t is the
\* concurrency of the first phase i, in list order, with
\* t <= (sum of the durations before i) + duration of phase i, and it is
\* max_concurrency when t is past the end of the last phase.
C18_CustomTarget ==
    (/\ rampUpQuery # <<>>
     /\ rampUpCalculator[1].strategy.type = RampUpTypeCustom)
    => LET phases == rampUpCalculator[1].strategy.phases
           open == PhasesOpenAt(phases, rampUpQuery[1].elapsed)
       IN IF open = {}
          THEN rampUpQuery[1].targetConcurrency
                   = rampUpCalculator[1].maxConcurrency
          ELSE \E i \in open :
                  /\ \A j \in open : i <= j
                  /\ rampUpQuery[1].targetConcurrency = phases[i].concurrency

\* a custom strategy queried past the end of its last phase, whose
\* concurrency is not the maximum, after a query inside its second phase
C18_Witness ==
    /\ rampUpQuery # <<>>
    /\ rampUpCalculator[1].strategy.type = RampUpTypeCustom
    /\ Len(rampUpCalculator[1].strategy.phases) = 2
    /\ rampUpCalculator[1].strategy.phases[2].concurrency
           # rampUpCalculator[1].maxConcurrency
    /\ rampUpExecution[1].CurrentPhase = 1
    /\ rampUpQuery[1].elapsed
           > PhaseEnd(rampUpCalculator[1].strategy.phases, 2)
    /\ rampUpQuery[1].targetConcurrency = rampUpCalculator[1].maxConcurrency

\* C19: the step strategy built for N steps (3 when N is not positive) on a
\* calculator of maximum concurrency max has N phases of equal duration, and
\* phase k (from 1) has concurrency round(k * max / N), so that the last
\* phase's concurrency is max.
C19_StepPhases ==
    rampUpCalculator # <<>> =>
        \A d \in RampDurations, n \in StepCounts :
            rampUpCalculator[1].strategy = CreateStepRampUp(d, n)
            => LET N == IF n <= 0 THEN 3 ELSE n
                   max == rampUpCalculator[1].maxConcurrency
                   phases == rampUpCalculator[1].strategy.phases
               IN /\ Len(phases) = N
                  /\ \A k \in 1..Len(phases) :
                        /\ phases[k].duration = phases[1].duration
                        /\ phases[k].concurrency
                               = (2 * k * max + N) \div (2 * N)
                  /\ phases[Len(phases)].concurrency = max

\* the agents inside the load of a sequential phase's slot
InSequentialSlot ==
    {a \in Agents : /\ agentPhase[a].pc = "load"
                    /\ agentPhase[a].phase.mode = "sequential"}

\* the START_PHASE commands of sequential phases an agent holds
SequentialCommands(a) ==
    {phaseCommands[a][i] : i \in 1..Len(phaseCommands[a])}
    \cup (IF agentPhase[a].pc = "idle" THEN {} ELSE {agentPhase[a].phase})

\* agent k (from 0) of the sorted agents is sent START_PHASE k * (D / |A|)
\* after its phase began, with duration D / |A|
DispatchedOnSchedule ==
    \A a \in Agents : \A cmd \in SequentialCommands(a) :
        cmd.mode = "sequential"
        => LET D == po.phases[cmd.phaseIndex].duration
           IN /\ cmd.duration * Cardinality(Agents) = D
              /\ cmd.sentAt = cmd.phaseStartTime + (a - 1) * cmd.duration

\* two agents' slots share more than the one second of clock skew the
\* design tolerates
SlotsOverlap(a, b) ==
    LET from == IF agentPhase[a].start > agentPhase[b].start
                THEN agentPhase[a].start ELSE agentPhase[b].start
        to == IF agentPhase[a].deadline < agentPhase[b].deadline
              THEN agentPhase[a].deadline ELSE agentPhase[b].deadline
    IN to - from > 1

\* C20: in a sequential phase over the sorted agents, agent k is sent
\* START_PHASE at k * (duration / |A|) after the phase begins, with duration
\* duration / |A|, and no two agents execute their slots at overlapping
\* times, also when a preceding phase's load is still finishing on an agent
\* when its START_PHASE arrives.
C20_SequentialSlots ==
    /\ DispatchedOnSchedule
    /\ \A a \in InSequentialSlot : \A b \in InSequentialSlot \ {a} :
          ~SlotsOverlap(a, b)

\* while the orchestrator waits for phase i to end, every agent of the
\* snapshot holds, executes or has completed the START_PHASE of phase i
PublishedToAll ==
    \A a \in Agents :
        \/ \E k \in 1..Len(phaseCommands[a]) :
              phaseCommands[a][k].phaseIndex = po.currentPhase
        \/ /\ agentPhase[a].pc # "idle"
           /\ agentPhase[a].phase.phaseIndex = po.currentPhase
        \/ [agent |-> a, phaseIndex |-> po.currentPhase] \in phaseComplete
        \/ a \in po.completedAgents

PlanAccepted(testPlan) ==
    /\ testPlan.endpoints > 0
    /\ ParseDuration(testPlan.duration)
    /\ testPlan.ramp_up_strategy # NoStrategy
       => ValidateRampUpStrategy(testPlan.ramp_up_strategy)

\* C22: create stores no run for a request whose plan has no endpoints, an
\* unparseable duration, a ramp-up strategy that fails validation, or
\* min_agents < 1; every run it stores has status created and
\* min_agents >= 1.
C22_CreateValidates ==
    \A id \in testRuns :
        /\ PlanAccepted(testRunObjs[id].test_plan)
        /\ testRunObjs[id].status = TestRunStatusCreated
        /\ testRunObjs[id].agent_count >= 1

\* a start goroutine of run id runs to its end: it arms a completion timer
StartTaskRuns(id) ==
    /\ startTasks'[id] = startTasks[id] - 1
    /\ completionTimers'[id] = completionTimers[id] + 1

\* C23: under any interleaving of a start or rerun request, registrations
\* and the start goroutine, a run is started at most once: a start goroutine
\* never broadcasts START, builds a phase orchestrator or arms a completion
\* timer for a run that is already started, and a run never has two
\* completion timers.
C23_StartedOnce ==
    [][\A id \in RunIds :
          /\ StartTaskRuns(id) => Status(id) = TestRunStatusWaiting
          /\ id \in testRuns' => completionTimers'[id] <= 1]_vars

\* the step writes the status of an existing run or the current-run pointer
WritesRunState ==
    \/ currentTestRun' # currentTestRun
    \/ \E id \in 1..Len(testRunObjs) :
          testRunObjs'[id].status # testRunObjs[id].status

\* C24: every write to a run's status and to the current-run pointer is made
\* by a goroutine that holds the coordinator's write lock.
C24_WritesUnderLock ==
    [][WritesRunState
       => \E t \in Tasks : lockPc'[t] # lockPc[t] /\ mu = t]_vars

\* C25: during a START-driven run, while worker goroutines are alive, the
\* number of workers that issue requests at time t equals the calculator's target concurrency at t; once the
\* ramp-up is over that is max_concurrency workers.
C25_WorkersFollowTarget ==
    (PlanPoolActive /\ rampUpQuery # <<>>)
    => Cardinality({workerID \in 0..(Concurrency - 1) :
                       IssuesRequest(workerID, rampUpQuery[1].elapsed)})
           = rampUpQuery[1].targetConcurrency

\* C26: after an agent accepts a START, whatever the ramp-up strategy, it
\* stays running with its worker pool alive for the plan's duration: absent
\* a STOP, it clears its running flag and publishes the completed status
\* only after the duration timer has fired.
C26_RunsForDuration ==
    [][(running /\ (~running' \/ executionUpdate'.status = "completed"))
       => planStopCh = "closed"]_vars

\* the agent has accepted the START of run id, or of a run started after it
AcceptedStart(id) == currentTestRunID # Nil /\ currentTestRunID >= id

\* C28: an AgentResult stored under run R reflects only requests the agent
\* issued while executing R: no result of the agent is recorded under a run
\* whose START the agent has not accepted, so the counters of an earlier run
\* (published until the next START resets them) never count for a later one.
C28_ResultsOfOwnRun ==
    \A id \in Allocated :
        \A i \in 1..Len(handlerResults[id]) :
            handlerResults[id][i].agent_id = LocalAgent => AcceptedStart(id)

\* C29: in a run that uses phase orchestration, each completion an agent
\* publishes on finishing an assigned phase goes out on
\* armonite.phase.complete.<id of the orchestrating run>, where that run's
\* orchestrator receives it and counts it toward the current phase.
C29_CompletionReachesOrchestrator ==
    [][\A completion \in phaseCompletions' \ phaseCompletions :
          completion.test_run_id = phaseTestRunID]_vars

\* the agent is executing a phase: its phase pool is started and the phase
\* has not been ended
ExecutingPhase ==
    agentCallback = "executePhaseLoad" /\ phaseWorkersStopCh = "open"

\* C30: in a run started through the phase orchestrator, an agent that
\* handles START_PHASE generates requests against the endpoints of that
\* run's plan: it never runs a phase with no request generator and never
\* sends requests to the endpoints of a previously executed run.
C30_PhaseLoadOnRunPlan ==
    (ExecutingPhase /\ phaseTestRunID \in Allocated)
    => /\ currentPlan # <<>>
       /\ \A i \in 1..Len(currentPlan) :
             currentPlan[i].endpoints
                 = testRunObjs[phaseTestRunID].test_plan.endpoints

\* the orchestrator is in a phase: dispatching its START_PHASE commands or
\* waiting in the select that ends it
InPhase == po.pc \in {"sequential", "parallel", "wait"}

\* C31: for every phase, parallel or sequential, the orchestrator advances to
\* the next phase (or finishes) no later than the phase's duration after it
\* entered the phase, even if no agent publishes phase-complete.
C31_PhaseWithinDuration ==
    InPhase
    => phaseClock <= po.phaseStartTime + po.phases[po.currentPhase].duration

\* C32: once Stop has been called on a phase orchestrator, it publishes no
\* further START_PHASE command to any agent, neither for a later phase nor
\* for the remaining agents of a sequential phase in progress.
C32_NoCommandAfterStop ==
    [][po.stopCh = "closed"
       => \A a \in Agents : Len(phaseCommands'[a]) <= Len(phaseCommands[a])]_vars

\* the completion timer of run id fires in this step
CompletionTimerFires(id) == completionTimers'[id] < completionTimers[id]

\* C33: finalisation of run A (its completion timer firing) affects only run
\* A: when another run B has meanwhile become the current run, B's status,
\* the current-run pointer and B's phase orchestrator are left unchanged.
C33_FinalisationOfOwnRun ==
    [][\A id \in Allocated :
          (CompletionTimerFires(id) /\ currentTestRun # Nil
             /\ currentTestRun # id)
          => /\ testRunObjs'[currentTestRun].status
                    = testRunObjs[currentTestRun].status
             /\ currentTestRun' = currentTestRun
             /\ phaseOrchestrator = currentTestRun
                    => phaseOrchestrator' = currentTestRun]_vars

\* C34: after every status transition of a run the persisted record's status
\* equals the in-memory status, so a read of the run through the
\* persistence-first API returns the run's current status.
C34_PersistedStatus ==
    \A id \in testRuns :
        id \in DOMAIN database.test_runs
        => database.test_runs[id].status = Status(id)

\* the last snapshot of agent a was accepted at least a second ago, or none was
SecondPassed(a) ==
    lastUpdate[a] = Nil \/ now - lastUpdate[a] >= RateLimitSeconds

\* C35: for each agent, any two telemetry snapshots accepted by the
\* coordinator are at least 1s apart: a snapshot arriving less than 1s after
\* the previous accepted snapshot of the same agent goes to no rollup and
\* does not move that agent's acceptance time, and the acceptance times of
\* other agents are unaffected.
C35_RateLimit ==
    [][/\ \A a \in Agents :
             lastUpdate'[a] # lastUpdate[a]
             => /\ SecondPassed(a)
                /\ lastUpdate'[a] = now
                /\ \A b \in Agents \ {a} : lastUpdate'[b] = lastUpdate[b]
       /\ Len(internalMsgs') > Len(internalMsgs)
             => LET a == internalMsgs'[Len(internalMsgs')].agent_id
                IN SecondPassed(a) /\ lastUpdate'[a] = now]_vars

\* a second snapshot of an agent was accepted a second after its first one,
\* while another agent's snapshot of that second is still the latest
C35_Witness ==
    \E a, b \in Agents :
        /\ a # b
        /\ lastUpdate[a] = now /\ now > 1
        /\ lastUpdate[b] = now
        /\ internalMsgs # <<>>
        /\ \E id \in Allocated :
              \E i \in 1..Len(handlerResults[id]) :
                  handlerResults[id][i].agent_id = a

\* the entries of agent a in a list of AgentResults
ResultsOf(results, a) ==
    {i \in 1..Len(results) : results[i].agent_id = a}

C37_TokenReservoir ==
    [][/\ rateLimiter'.rateLimit > 0
             => /\ rateLimiter'.tokens \in 0..rateLimiter'.rateLimit
                /\ rateLimiter'.acquired <= rateLimiter'.ticks
       /\ (rateLimiter.rateLimit > 0
             /\ rateLimiter'.ticks > rateLimiter.ticks
             /\ rateLimiter.tokens = rateLimiter.rateLimit)
             => rateLimiter'.tokens = rateLimiter.tokens
       /\ (rateLimiter.rateLimit > 0
             /\ rateLimiter'.acquired > rateLimiter.acquired)
             => /\ rateLimiter.tokens > 0
                /\ rateLimiter'.tokens = rateLimiter.tokens - 1
                /\ rateLimiter'.acquired = rateLimiter.acquired + 1
       /\ (rateLimiter'.built /\ rateLimiter'.rateLimit = 0
             /\ rateLimiter'.acquired < MaxTicks)
             => (ENABLED waitForRateLimit)']_vars

\* a full reservoir took a tick, and acquires emptied the reservoir again
C37_Witness ==
    /\ rateLimiter.rateLimit = 2
    /\ rateLimiter.ticks = 3
    /\ rateLimiter.acquired = 2
    /\ rateLimiter.tokens = 0

\* the workers of the START-driven pool that pass the throttle test
RequestWorkers ==
    {workerID \in 0..(planWorkers - 1) :
        IssuesRequest(workerID, rampUpQuery[1].elapsed)}

\* C38: an agent never runs more request-issuing workers than its declared
\* concurrency, for START with any ramp-up strategy and for START_PHASE with
\* any phase concurrency.
C38_WorkersWithinConcurrency ==
    /\ (PlanPoolActive /\ rampUpQuery # <<>>)
          => Cardinality(RequestWorkers) <= Concurrency
    /\ PhasePoolActive => phaseWorkers <= Concurrency

\* C39: an agent that has started and keeps sending heartbeats is
\* eventually in the coordinator's registry, also after the janitor removed
\* it as stale.
C39_HeartbeatsRestoreRegistry ==
    \A a \in Agents :
        (heartbeatTicker[a] # Nil /\ a \notin connectedAgents)
            ~> (a \in connectedAgents)

\* C40: the requests and errors counters of an agent (which every published
\* snapshot copies) go down only in the step that accepts a START, and in
\* that step no worker is still issuing requests.
CountersReset ==
    \/ metrics'.Requests < metrics.Requests
    \/ metrics'.Errors < metrics.Errors

StartAccepted == testCallback = "idle" /\ testCallback' = "executeTestPlan"

WorkersIssuing ==
    \/ planWorkers > 0 /\ planStopCh = "open"
    \/ phaseWorkers > 0 /\ phaseWorkersStopCh = "open" /\ currentPlan # <<>>

C40_CountersMonotone ==
    [][CountersReset => StartAccepted /\ ~WorkersIssuing]_vars

====
